---- MODULE Spec2Model ----
(***************************************************************************)
(* A model of the rule and pattern builtins of mathics/builtin/patterns.py *)
(* : rule normalisation (create_rules), Dispatch, the Replace family of    *)
(* rewrite drivers and the match procedures of the pattern objects.        *)
(***************************************************************************)
EXTENDS Integers, Sequences, FiniteSets, TLC

VARIABLES
    cr,     \* the last call of a rewrite driver through create_rules
    rr,     \* the activation record of ReplaceRepeated.eval_list
    rl,     \* the last call of ReplaceList.eval
    mt,     \* the last call of a match procedure
    rp,     \* the last call of Replace.eval_levelspec
    cp      \* the last compilation of a pattern expression

vars == <<cr, rr, rl, mt, rp, cp>>

(***************************************************************************)
(* Bounds of the model.                                                    *)
(***************************************************************************)
MaxRuleListLen == 2
MaxCap == 3
MaxPasses == 4
MaxRun == 2
MaxCount == 2
MaxArgs == 4

MaxAlts == 3

MaxMatches == 3

(***************************************************************************)
(* Expressions: head(elements...), atoms carry a name.  Python's None is a *)
(* value of its own.                                                       *)
(***************************************************************************)
Sym(n) == [head |-> "Symbol", name |-> n, elems |-> <<>>]

IntE(n) == [head |-> "Integer", name |-> n, elems |-> <<>>]

Ex(h, es) == [head |-> h, name |-> "", elems |-> es]

ListE(es) == Ex("List", es)

NoneE == [head |-> "NoneType", name |-> "None", elems |-> <<>>]

sameQ(x, y) == x = y

RECURSIVE SeqMap1(_, _, _, _)
\* [Expression(Symbol(name), expr, item, *extra_args) for item in rules]
SeqMap1(name, expr, extra_args, rules) ==
    IF rules = <<>> THEN <<>>
    ELSE <<Ex(name, <<expr, Head(rules)>> \o extra_args)>>
             \o SeqMap1(name, expr, extra_args, Tail(rules))

(***************************************************************************)
(* Rule(pattern, replace): the compiled rule object.                       *)
(***************************************************************************)
Rule(pattern, replace) == [pattern |-> pattern, replace |-> replace]

(***************************************************************************)
(* class Dispatch(Atom).  The atom keeps the source list; its rules are    *)
(* the Rule objects __init__ builds from the elements of the rule list.    *)
(***************************************************************************)
IsDispatch(x) == x.head = "Dispatch" /\ x.name = "DispatchAtom"

\* rule.elements[0], rule.elements[1] can be taken of every member
DispatchInitOK(rulelist) ==
    \A i \in 1..Len(rulelist) : Len(rulelist[i].elems) >= 2

DispatchRulesOf(rulelist) ==
    [i \in 1..Len(rulelist) |->
        Rule(rulelist[i].elems[1], rulelist[i].elems[2])]

\* Dispatch.__init__: self.src = ListExpression(*rulelist); self.rules = [...]
DispatchInit(rulelist) ==
    [head |-> "Dispatch", name |-> "DispatchAtom", elems |-> <<ListE(rulelist)>>]

DispatchSrc(d) == d.elems[1]

DispatchRules(d) == DispatchRulesOf(DispatchSrc(d).elems)

\* expr.has_form(h, None): an Expression (not an atom) with that head
HasForm(x, h) == x.head = h /\ ~IsDispatch(x)

(***************************************************************************)
(* create_rules.  What the Python call produces: a tuple (first, ret), a   *)
(* bare object (no tuple), or an exception.                                *)
(***************************************************************************)
Msg(sym, tag) == [sym |-> sym, tag |-> tag]

CRTuple(rules, value, ret, msgs) ==
    [kind |-> "tuple", rules |-> rules, value |-> value, ret |-> ret,
     msgs |-> msgs, exc |-> "none"]

CRObject(value) ==
    [kind |-> "object", rules |-> <<>>, value |-> value, ret |-> FALSE,
     msgs |-> <<>>, exc |-> "none"]

CRRaise(exc) ==
    [kind |-> "raise", rules |-> <<>>, value |-> NoneE, ret |-> FALSE,
     msgs |-> <<>>, exc |-> exc]

(***************************************************************************)
(* The errors of BasePattern.create(expr): "none", or the tag of the       *)
(* PatternError the init of a pattern object raises.                       *)
(***************************************************************************)
\* the strings get_int_value() reads as an integer
IntNames ==
    {"-9", "-8", "-7", "-6", "-5", "-4", "-3", "-2", "-1",
     "0", "1", "2", "3", "4", "5", "6", "7", "8", "9"}

\* element.get_int_value() is not None
HasIntValue(e) == e.head = "Integer" /\ e.name \in IntNames

\* a test that only looks at the number of elements
PatvarErrorArityOnly(expr) == Len(expr.elems) # 2

\* Pattern.init: len(expr.elements) != 2, or the name is None or ""
PatvarError(expr) ==
    \/ Len(expr.elems) # 2
    \/ expr.elems[1].head # "Symbol"
    \/ expr.elems[1].name = ""

\* a range test that takes every integer and every list of one or two
RangeOKLoose(element_1) ==
    \/ element_1.head = "List" /\ Len(element_1.elems) \in {1, 2}
    \/ HasIntValue(element_1)

\* Repeated.init: a list of one or two integers, or a non-zero integer
RangeOK(element_1) ==
    LET allnumbers == \A i \in 1..Len(element_1.elems) :
                          HasIntValue(element_1.elems[i])
    IN \/ element_1.head = "List" /\ Len(element_1.elems) \in {1, 2} /\ allnumbers
       \/ HasIntValue(element_1) /\ element_1.name # "0"

RECURSIVE CompileError(_)
RECURSIVE FirstCompileError(_)
\* the first error among the patterns compiled in order
FirstCompileError(es) ==
    IF es = <<>> THEN "none"
    ELSE IF CompileError(Head(es)) # "none" THEN CompileError(Head(es))
    ELSE FirstCompileError(Tail(es))

CompileError(e) ==
    IF e.head \in {"Symbol", "Integer", "String", "NoneType", "Dispatch", "Blank",
                   "BlankSequence", "BlankNullSequence", "Verbatim"}
    THEN "none"
    ELSE IF e.head = "Pattern"
    THEN IF PatvarError(e) THEN "patvar" ELSE CompileError(e.elems[2])
    ELSE IF e.head \in {"Repeated", "RepeatedNull"} /\ e.elems # <<>>
    THEN IF CompileError(e.elems[1]) # "none" THEN CompileError(e.elems[1])
         ELSE IF Len(e.elems) = 2 /\ ~RangeOK(e.elems[2]) THEN "range"
         ELSE "none"
    ELSE FirstCompileError(e.elems)

RECURSIVE CreateRulesLoopSkip(_, _, _)
\* a loop that drops an invalid element and compiles the others
CreateRulesLoopSkip(name, rules, result) ==
    IF rules = <<>> THEN CRTuple(result, NoneE, FALSE, <<>>)
    ELSE LET rule == Head(rules) IN
         IF rule.head \notin {"Rule", "RuleDelayed"} \/ Len(rule.elems) # 2
         THEN CreateRulesLoopSkip(name, Tail(rules), result)
         ELSE CreateRulesLoopSkip(name, Tail(rules),
                  Append(result, Rule(rule.elems[1], rule.elems[2])))

RECURSIVE CreateRulesLoop(_, _, _)
\* for rule in rules: ... result.append(Rule(...)); return result, False
CreateRulesLoop(name, rules, result) ==
    IF rules = <<>> THEN CRTuple(result, NoneE, FALSE, <<>>)
    ELSE LET rule == Head(rules) IN
         IF rule.head \notin {"Rule", "RuleDelayed"}
         THEN CRTuple(<<>>, NoneE, TRUE, <<Msg(name, "reps")>>)
         ELSE IF Len(rule.elems) # 2
         THEN CRTuple(<<>>, NoneE, TRUE, <<Msg(rule.head, "argrx")>>)
         \* Rule(...) compiles the left-hand side
         ELSE IF CompileError(rule.elems[1]) # "none" THEN CRRaise("PatternError")
         ELSE CreateRulesLoop(name, Tail(rules),
                  Append(result, Rule(rule.elems[1], rule.elems[2])))

CreateRules(rules_expr, expr, name, extra_args) ==
    IF IsDispatch(rules_expr)
    THEN CRTuple(DispatchRules(rules_expr), NoneE, FALSE, <<>>)
    ELSE IF HasForm(rules_expr, "Dispatch")
    THEN IF DispatchInitOK(rules_expr.elems)
         THEN CRObject(DispatchInit(rules_expr.elems))
         ELSE CRRaise("IndexError")
    ELSE LET rules == IF HasForm(rules_expr, "List") THEN rules_expr.elems
                      ELSE <<rules_expr>>
             any_lists == \E i \in 1..Len(rules) :
                              rules[i].head \in {"List", "Dispatch"}
             all_lists == \A i \in 1..Len(rules) : rules[i].head = "List"
         IN IF any_lists
            THEN IF all_lists
                 THEN CRTuple(<<>>,
                          ListE(SeqMap1(name, expr, extra_args, rules)),
                          TRUE, <<>>)
                 ELSE CRTuple(<<>>, NoneE, TRUE, <<Msg(name, "rmix")>>)
            ELSE CreateRulesLoop(name, rules, <<>>)

(***************************************************************************)
(* Expression.do_apply_rules(rules, evaluation): at a node the first rule  *)
(* in list order that matches wins; a node no rule matches is rebuilt from *)
(* its rewritten elements.  The rules of this model have literal (atomic)  *)
(* left-hand sides, which match by structural equality.                    *)
(***************************************************************************)
\* a rule that matches whatever it is tried on
RuleMatchesAlways(rule, expr) == TRUE

RuleMatches(rule, expr) == sameQ(rule.pattern, expr)

RECURSIVE FirstRule(_, _, _)
FirstRule(rules, expr, i) ==
    IF i > Len(rules) THEN 0
    ELSE IF RuleMatches(rules[i], expr) THEN i
    ELSE FirstRule(rules, expr, i + 1)

RECURSIVE DoApplyRulesDeepFirst(_, _)
\* a traversal that rewrites the elements of a node before the node
DoApplyRulesDeepFirst(rules, expr) ==
    LET sub == [k \in 1..Len(expr.elems) |->
                   DoApplyRulesDeepFirst(rules, expr.elems[k])]
        below == [expr EXCEPT !.elems = [k \in 1..Len(expr.elems) |-> sub[k].result]]
        i == FirstRule(rules, below, 1)
    IN IF i > 0 THEN [result |-> rules[i].replace, applied |-> TRUE]
       ELSE [result |-> below, applied |-> \E k \in 1..Len(expr.elems) : sub[k].applied]

RECURSIVE DoApplyRules(_, _)
DoApplyRules(rules, expr) ==
    LET i == FirstRule(rules, expr, 1) IN
    IF i > 0 THEN [result |-> rules[i].replace, applied |-> TRUE]
    ELSE LET sub == [k \in 1..Len(expr.elems) |->
                        DoApplyRules(rules, expr.elems[k])]
         IN [result |-> [expr EXCEPT !.elems =
                            [k \in 1..Len(expr.elems) |-> sub[k].result]],
             applied |-> \E k \in 1..Len(expr.elems) : sub[k].applied]

(***************************************************************************)
(* ReplaceAll.eval: "ReplaceAll[expr_, rules_]".                           *)
(***************************************************************************)
DriverResult(outcome, value, applied, msgs) ==
    [outcome |-> outcome, value |-> value, applied |-> applied, msgs |-> msgs]

ReplaceAllEval(expr, rules_expr) ==
    LET c == CreateRules(rules_expr, expr, "ReplaceAll", <<>>) IN
    \* except PatternError: evaluation.message("Replace", "reps", rules)
    IF c.kind = "raise" /\ c.exc = "PatternError"
    THEN DriverResult("return", NoneE, FALSE, <<Msg("Replace", "reps")>>)
    ELSE IF c.kind = "raise" THEN DriverResult(c.exc, NoneE, FALSE, c.msgs)
    \* rules, ret = <a Dispatch object>: the unpacking fails
    ELSE IF c.kind = "object" THEN DriverResult("TypeError", NoneE, FALSE, c.msgs)
    ELSE IF c.ret THEN DriverResult("return", c.value, FALSE, c.msgs)
    ELSE LET r == DoApplyRules(c.rules, expr) IN
         DriverResult("return", r.result, TRUE, c.msgs)

(***************************************************************************)
(* The arguments the drivers are called with.                              *)
(***************************************************************************)
Atoms == {Sym("a"), Sym("b"), Sym("c")}

Exprs == Atoms \cup {ListE(<<Sym("a"), Sym("b")>>)}

ValidRules ==
    {Ex("Rule", <<Sym(x), Sym(y)>>) : x \in {"a", "b"}, y \in {"a", "b"}}
        \cup {Ex("RuleDelayed", <<Sym("b"), Sym("c")>>)}

SeqsUpTo(S, n) == UNION {[1..k -> S] : k \in 0..n}

FlatRuleLists == SeqsUpTo(ValidRules, MaxRuleListLen)

RuleItems ==
    ValidRules
        \cup {Ex("Rule", <<Sym("a")>>),
              Ex("Rule", <<Sym("a"), Sym("b"), Sym("c")>>),
              Ex("RuleDelayed", <<>>),
              IntE("5"), Sym("a"),
              ListE(<<Ex("Rule", <<Sym("a"), Sym("b")>>)>>),
              ListE(<<IntE("5")>>),
              DispatchInit(<<Ex("Rule", <<Sym("a"), Sym("b")>>)>>)}

RuleArgs ==
    {ListE(l) : l \in SeqsUpTo(RuleItems, MaxRuleListLen)}
        \cup RuleItems
        \cup {DispatchInit(l) : l \in FlatRuleLists}
        \cup {Ex("Dispatch", <<ListE(l)>>) : l \in FlatRuleLists}
        \cup {Ex("Dispatch", l) : l \in FlatRuleLists}

(***************************************************************************)
(* The rule-normalisation system: one driver call at a time.               *)
(***************************************************************************)
CRIdle ==
    [pc |-> "idle", expr |-> NoneE, rules_expr |-> NoneE,
     out |-> CRRaise("none"), res |-> DriverResult("none", NoneE, FALSE, <<>>)]


RRIdle == [pc |-> "idle"]

RLIdle == [pc |-> "idle"]

MTIdle == [pc |-> "idle"]

RPIdle == [pc |-> "idle"]

CPIdle == [pc |-> "idle"]

CallReplaceAll(expr, rules_expr) ==
    /\ cr.pc = "idle"
    /\ cr' = [pc |-> "done", expr |-> expr, rules_expr |-> rules_expr,
              out |-> CreateRules(rules_expr, expr, "ReplaceAll", <<>>),
              res |-> ReplaceAllEval(expr, rules_expr)]
    /\ UNCHANGED <<rr, rl, mt, rp, cp>>

InitCR == cr = CRIdle /\ rr = RRIdle /\ rl = RLIdle /\ mt = MTIdle /\ rp = RPIdle /\ cp = CPIdle

NextCR == \E expr \in Exprs, rules_expr \in RuleArgs :
              CallReplaceAll(expr, rules_expr)

SpecCR == InitCR /\ [][NextCR]_vars

(***************************************************************************)
(* C9.  An invalid rule argument (an element that is no Rule/RuleDelayed,  *)
(* a Rule/RuleDelayed of arity other than 2, or lists mixed with           *)
(* non-lists; the list-of-lists form, every element a list, is the nested  *)
(* rule-set argument and not an invalid one) makes create_rules emit one   *)
(* diagnostic and return (None, True): rmix when an element has head List  *)
(* or Dispatch, otherwise reps or argrx for the first offending element.   *)
(* The driver then returns None and applies no rule.                       *)
(***************************************************************************)
RuleElements(rules_expr) ==
    IF HasForm(rules_expr, "List") THEN rules_expr.elems ELSE <<rules_expr>>

BadRuleElement(x) ==
    x.head \notin {"Rule", "RuleDelayed"} \/ Len(x.elems) # 2

InvalidRuleArg(rules_expr) ==
    LET els == RuleElements(rules_expr) IN
    /\ ~IsDispatch(rules_expr)
    /\ ~HasForm(rules_expr, "Dispatch")
    /\ \E i \in 1..Len(els) : BadRuleElement(els[i])
    /\ ~(\A i \in 1..Len(els) : els[i].head = "List")

ExpectedDiagnostic(rules_expr) ==
    LET els == RuleElements(rules_expr)
        bad == {i \in 1..Len(els) : BadRuleElement(els[i])}
        k   == CHOOSE i \in bad : \A j \in bad : i <= j
    IN IF \E i \in 1..Len(els) : els[i].head \in {"List", "Dispatch"}
       THEN "rmix"
       ELSE IF els[k].head \notin {"Rule", "RuleDelayed"} THEN "reps"
       ELSE "argrx"

C9_InvalidRuleAborts ==
    (cr.pc = "done" /\ InvalidRuleArg(cr.rules_expr)) =>
        /\ cr.out.kind = "tuple"
        /\ cr.out.ret
        /\ cr.out.value = NoneE
        /\ cr.out.rules = <<>>
        /\ Len(cr.out.msgs) = 1
        /\ cr.out.msgs[1].tag = ExpectedDiagnostic(cr.rules_expr)
        /\ cr.res.outcome = "return"
        /\ cr.res.value = NoneE
        /\ ~cr.res.applied

\* an invalid element after a valid rule that would have rewritten expr
C9_Witness ==
    /\ cr.pc = "done"
    /\ cr.expr = Sym("a")
    /\ cr.rules_expr = ListE(<<Ex("Rule", <<Sym("a"), Sym("b")>>), IntE("5")>>)
    /\ cr.out.ret
    /\ cr.res.value = NoneE

(***************************************************************************)
(* C10.  For a flat list L of valid rules, create_rules given the Dispatch *)
(* atom of L, or the expression Dispatch[L], returns (rules, False) with   *)
(* the rules create_rules returns for L.                                   *)
(***************************************************************************)
C10_DispatchInterchangeable ==
    cr.pc = "done" =>
        \A L \in FlatRuleLists :
            cr.rules_expr \in {DispatchInit(L), Ex("Dispatch", <<ListE(L)>>)} =>
                /\ cr.out.kind = "tuple"
                /\ ~cr.out.ret
                /\ cr.out.rules =
                       CreateRules(ListE(L), cr.expr, "ReplaceAll", <<>>).rules

(***************************************************************************)
(* result.evaluate(evaluation): a symbol with an own value evaluates to    *)
(* it, every other atom to itself, a list element by element.              *)
(***************************************************************************)
NoDefinitions == [n \in {"a", "b", "c"} |-> n]

OwnValueOfC == [n \in {"a", "b", "c"} |-> IF n = "c" THEN "b" ELSE n]

RECURSIVE Evaluate(_, _)
Evaluate(defs, e) ==
    IF e.head = "Symbol" /\ e.name \in DOMAIN defs THEN Sym(defs[e.name])
    ELSE [e EXCEPT !.elems = [k \in 1..Len(e.elems) |-> Evaluate(defs, e.elems[k])]]

(***************************************************************************)
(* ReplaceRepeated.eval_list, one step of the method per action.           *)
(***************************************************************************)
UnboundE == [head |-> "<unbound>", name |-> "", elems |-> <<>>]

\* self.get_option(options, "MaxIterations", evaluation)
MaxIterationsOptions ==
    {[numeric |-> TRUE, int |-> n] : n \in 0..MaxCap}
        \cup {[numeric |-> FALSE, int |-> 0]}

RRRuleArgs ==
    {ListE(l) : l \in FlatRuleLists}
        \cup {Ex("Rule", <<Sym("a"), Sym("b")>>), IntE("5"),
              ListE(<<ListE(<<Ex("Rule", <<Sym("a"), Sym("b")>>)>>)>>)}

RRStart(expr, rules_expr, option, defs) ==
    [pc |-> "call", expr |-> expr, rules_expr |-> rules_expr, option |-> option,
     defs |-> defs, rules |-> <<>>, maxit |-> 0, result |-> UnboundE,
     applied |-> FALSE, passes |-> 0, hist |-> <<>>, exit |-> "none",
     stopped |-> FALSE, exc |-> "none", msgs |-> <<>>]

\* lines 442-455: normalise the rules, read the iteration cap
RRCall ==
    /\ rr.pc = "call"
    /\ LET c == CreateRules(rr.rules_expr, rr.expr, "ReplaceRepeated", <<>>) IN
       rr' = IF c.kind = "raise" /\ c.exc = "PatternError"
             THEN [rr EXCEPT !.pc = "returned", !.result = NoneE, !.exit = "reps",
                             !.msgs = <<Msg("Replace", "reps")>>]
             ELSE IF c.kind # "tuple"
             THEN [rr EXCEPT !.pc = "raised",
                             !.exc = IF c.kind = "raise" THEN c.exc ELSE "TypeError"]
             ELSE IF c.ret
             THEN [rr EXCEPT !.pc = "returned", !.result = c.value, !.exit = "ret",
                             !.msgs = c.msgs]
             ELSE [rr EXCEPT !.pc = "loop", !.rules = c.rules,
                             !.maxit = IF rr.option.numeric THEN rr.option.int
                                       ELSE -1]
    /\ UNCHANGED <<cr, rl, mt, rp, cp>>

\* a check that does not look at the flag
RRCheckStoppedIgnored ==
    /\ rr.pc = "loop"
    /\ rr' = [rr EXCEPT !.pc = "cap"]
    /\ UNCHANGED <<cr, rl, mt, rp, cp>>

\* evaluation.check_stopped()
RRCheckStopped ==
    /\ rr.pc = "loop"
    /\ rr' = IF rr.stopped THEN [rr EXCEPT !.pc = "aborted"]
             ELSE [rr EXCEPT !.pc = "cap"]
    /\ UNCHANGED <<cr, rl, mt, rp, cp>>

\* if maxit == 0: break; maxit -= 1
RRCapTest ==
    /\ rr.pc = "cap"
    /\ rr' = IF rr.maxit = 0 THEN [rr EXCEPT !.pc = "after", !.exit = "cap"]
             ELSE [rr EXCEPT !.pc = "pass", !.maxit = rr.maxit - 1]
    /\ UNCHANGED <<cr, rl, mt, rp, cp>>

\* a condition that continues the loop on an unchanged result
ChangedNoNot(applied, result, expr) == applied /\ sameQ(result, expr)

\* if applied and not result.sameQ(expr)
Changed(applied, result, expr) == applied /\ ~sameQ(result, expr)

\* result, applied = expr.do_apply_rules(...); evaluate; compare
RRPass ==
    /\ rr.pc = "pass"
    /\ rr.passes < MaxPasses
    /\ LET r == DoApplyRules(rr.rules, rr.expr)
           result == IF r.applied THEN Evaluate(rr.defs, r.result) ELSE r.result
           step == [from |-> rr.expr, to |-> result, applied |-> r.applied]
       IN rr' = IF Changed(r.applied, result, rr.expr)
                THEN [rr EXCEPT !.pc = "loop", !.expr = result, !.result = result,
                                !.applied = r.applied, !.passes = rr.passes + 1,
                                !.hist = Append(rr.hist, step)]
                ELSE [rr EXCEPT !.pc = "after", !.exit = "fixed", !.result = result,
                                !.applied = r.applied, !.passes = rr.passes + 1,
                                !.hist = Append(rr.hist, step)]
    /\ UNCHANGED <<cr, rl, mt, rp, cp>>

\* return result: the local is unbound when no pass has assigned it
RRReturn ==
    /\ rr.pc = "after"
    /\ rr' = IF rr.result = UnboundE
             THEN [rr EXCEPT !.pc = "raised", !.exc = "UnboundLocalError"]
             ELSE [rr EXCEPT !.pc = "returned"]
    /\ UNCHANGED <<cr, rl, mt, rp, cp>>

\* another thread (a timeout, an interrupt) requests the abort
RequestAbort ==
    /\ rr.pc \in {"loop", "cap", "pass"}
    /\ ~rr.stopped
    /\ rr' = [rr EXCEPT !.stopped = TRUE]
    /\ UNCHANGED <<cr, rl, mt, rp, cp>>

InitRR ==
    /\ cr = CRIdle
    /\ rl = RLIdle
    /\ mt = MTIdle
    /\ rp = RPIdle
    /\ cp = CPIdle
    /\ \E expr \in Exprs, rules_expr \in RRRuleArgs,
          option \in MaxIterationsOptions, defs \in {NoDefinitions, OwnValueOfC} :
           rr = RRStart(expr, rules_expr, option, defs)

NextRR ==
    \/ RRCall
    \/ RRCheckStopped
    \/ RRCapTest
    \/ RRPass
    \/ RRReturn
    \/ RequestAbort

SpecRR == InitRR /\ [][NextRR]_vars

(***************************************************************************)
(* C1.  With an integer MaxIterations n >= 0 the loop performs at most n   *)
(* passes and the call then returns an expression: it never ends in an     *)
(* exception, and a call that has returned holds a bound result.           *)
(***************************************************************************)
C1_TerminatesWithinCap ==
    (rr.pc # "idle" /\ rr.option.numeric /\ rr.option.int >= 0) =>
        /\ rr.passes <= rr.option.int
        /\ ~(rr.pc = "raised" /\ rr.exc = "UnboundLocalError")
        /\ (rr.pc = "returned" => rr.result # UnboundE)

(***************************************************************************)
(* C2.  A call that returns through the fixed-point exit of the loop (not  *)
(* the iteration cap, not an abort) returns an expression structurally     *)
(* equal to the one the last pass was applied to: the last pass applied no *)
(* rule or produced an equal result, and every earlier pass applied a rule *)
(* and produced a different expression.                                    *)
(***************************************************************************)
C2_FixedPointOnReturn ==
    (rr.pc = "returned" /\ rr.exit = "fixed") =>
        LET n == Len(rr.hist) IN
        /\ n >= 1
        /\ n = rr.passes
        /\ (~rr.hist[n].applied \/ sameQ(rr.hist[n].to, rr.hist[n].from))
        /\ sameQ(rr.result, rr.hist[n].from)
        /\ rr.result = rr.hist[n].to
        /\ \A i \in 1..(n - 1) :
               /\ rr.hist[i].applied
               /\ ~sameQ(rr.hist[i].to, rr.hist[i].from)
               /\ rr.hist[i + 1].from = rr.hist[i].to

\* two changing passes, then a pass that applies a rule and changes nothing
C2_Witness ==
    /\ rr.pc = "returned"
    /\ rr.exit = "fixed"
    /\ Len(rr.hist) = 2
    /\ rr.hist[2].applied
    /\ rr.maxit > 0

(***************************************************************************)
(* The matching engine.                                                    *)
(*                                                                         *)
(* A candidate is an expression; a run of sibling elements is handed over  *)
(* as Sequence[...].  A binding environment (vars_dict) is a Python dict:  *)
(* an object on a heap, referred to by its index, so that a copy and an    *)
(* alias differ.  A continuation (yield_func) is the list of the closures  *)
(* still to run, innermost first.  A match threads the machine state       *)
(*   heap  the dicts,                                                      *)
(*   out   the calls the caller's continuation received,                   *)
(*   exc   the exception being raised ("none" when none),                  *)
(*   msgs  the diagnostics emitted.                                        *)
(***************************************************************************)
Names == {"x", "y", "_option_n", "_option_m"}

EmptyVars == [n \in Names |-> NoneE]

SeqE(es) == Ex("Sequence", es)

\* expression.get_sequence()
GetSequence(e) == IF e.head = "Sequence" THEN e.elems ELSE <<e>>

\* expression.get_head()
GetHead(e) == Sym(e.head)

\* expression.has_form("Sequence", 0)
IsEmptySequence(e) == e.head = "Sequence" /\ Len(e.elems) = 0

MachineInit(vars0) ==
    [heap |-> <<vars0>>, out |-> <<>>, exc |-> "none", msgs |-> <<>>,
     tests |-> <<>>, guards |-> <<>>]

\* an assignment that shares the caller's dict
CopyDictAlias(st, id) == [st |-> st, id |-> id]

\* vars_dict.copy()
CopyDict(st, id) ==
    [st |-> [st EXCEPT !.heap = Append(st.heap, st.heap[id])],
     id |-> Len(st.heap) + 1]

\* new_vars_dict[name] = value
SetItem(st, id, name, value) ==
    [st EXCEPT !.heap[id] = [st.heap[id] EXCEPT ![name] = value]]

\* vars_dict.get(name, None)
GetItem(st, id, name) == st.heap[id][name]

(***************************************************************************)
(* Pattern objects.                                                        *)
(***************************************************************************)
\* Python's None where an integer is expected
NoLimit == -100

PObj(tag) ==
    [tag |-> tag, varname |-> "", head |-> NoneE, subs |-> <<>>,
     content |-> NoneE, test |-> NoneE, min |-> 1, max |-> 1]

\* _Blank.init: self.head = expr.elements[0] or None
PBlank(h) == [PObj("Blank") EXCEPT !.head = h]

PBlankSequence(h) == [PObj("BlankSequence") EXCEPT !.head = h]

PBlankNullSequence(h) == [PObj("BlankNullSequence") EXCEPT !.head = h]

\* Verbatim.init: self.content = expr.elements[0]
PVerbatim(content) == [PObj("Verbatim") EXCEPT !.content = content]

\* HoldPattern.init
PHoldPattern(p) == [PObj("HoldPattern") EXCEPT !.subs = <<p>>]

\* Pattern.init: self.varname, self.pattern
PPattern(varname, p) == [PObj("Pattern") EXCEPT !.varname = varname, !.subs = <<p>>]

\* Alternatives.init: self.alternatives
PAlternatives(ps) == [PObj("Alternatives") EXCEPT !.subs = ps]

\* Except.init: self.c, self.p (Blank[] when one argument)
PExcept2(c, p) == [PObj("Except") EXCEPT !.subs = <<c, p>>]

PExcept1(c) == PExcept2(c, PBlank(NoneE))

\* PatternTest.init: self.pattern, self.test
PPatternTest(p, test) == [PObj("PatternTest") EXCEPT !.subs = <<p>>, !.test = test]

\* Condition.init: self.test, self.pattern
PCondition(p, test) == [PObj("Condition") EXCEPT !.subs = <<p>>, !.test = test]

\* Repeated.init: self.pattern, self.min, self.max (NoLimit for None)
PRepeated(p, min, max) ==
    [PObj("Repeated") EXCEPT !.subs = <<p>>, !.min = min, !.max = max]

\* OptionsPattern.init: self.defaults (None without an argument)
POptionsPattern(defaults) == [PObj("OptionsPattern") EXCEPT !.content = defaults]

\* Optional.init: self.pattern, self.default (None without a second element)
POptional(p, default) == [PObj("Optional") EXCEPT !.subs = <<p>>, !.content = default]

\* a pattern head[p1, ..., pn] that is no pattern object
PExpression(head, ps) == [PObj("Expression") EXCEPT !.head = head, !.subs = ps]

\* a pattern that is an atom
PAtom(atom) == [PObj("Atom") EXCEPT !.content = atom]

(***************************************************************************)
(* The evaluator, as far as guards and tests need it.                      *)
(***************************************************************************)
SymbolTrue == Sym("True")

SymbolFalse == Sym("False")

RECURSIVE ReplaceVars(_, _)
\* self.test.replace_vars(new_vars_dict)
ReplaceVars(e, bindings) ==
    IF e.head = "Symbol" /\ e.name \in Names /\ bindings[e.name] # NoneE
    THEN bindings[e.name]
    ELSE [e EXCEPT !.elems = [i \in 1..Len(e.elems) |-> ReplaceVars(e.elems[i], bindings)]]

\* test_expr.evaluate(evaluation): SameQ is decided, the user's test p holds
\* of a and fails on b, everything else stays as it is
EvaluateTest(e) ==
    IF e.head = "SameQ" /\ Len(e.elems) = 2
    THEN IF sameQ(e.elems[1], e.elems[2]) THEN SymbolTrue ELSE SymbolFalse
    ELSE IF e.head = "p" /\ e.elems = <<Sym("a")>> THEN SymbolTrue
    ELSE IF e.head = "p" /\ e.elems = <<Sym("b")>> THEN SymbolFalse
    ELSE e

IsAtom(e) == e.head \in {"Symbol", "Integer", "String", "Dispatch"} /\ e.name # ""

\* PatternTest.quick_pattern_test: "True", "False" or "None"
QuickPatternTest(candidate, test) ==
    IF test = "NegativePowerQ" THEN "False"
    ELSE IF test = "NotNegativePowerQ" THEN "True"
    ELSE IF test = "IntegerQ"
         THEN (IF candidate.head = "Integer" THEN "True" ELSE "False")
    ELSE "None"

\* the names PatternTest.init gives a match function of their own
FastTests == {"AtomQ"}

(***************************************************************************)
(* Option values: BaseElement.get_option_values and the declared options.  *)
(***************************************************************************)
OptNames == {"n", "m"}

NoOptions == [o \in OptNames |-> NoneE]

\* Options[f] = {n -> 2}
DeclaredOptions(name) ==
    IF name = "f" THEN [NoOptions EXCEPT !["n"] = IntE("2")] ELSE NoOptions

\* an update in which the value already present stays
UpdateOptionsKeepFirst(values, more) ==
    [o \in OptNames |-> IF values[o] # NoneE THEN values[o] ELSE more[o]]

\* values.update(option_values)
UpdateOptions(values, more) ==
    [o \in OptNames |-> IF more[o] # NoneE THEN more[o] ELSE values[o]]

RECURSIVE GetOptionValues(_, _, _)
\* [ok, values]: ok is FALSE for Python's None
GetOptionValues(e, allow_symbols, stop_on_error) ==
    IF e.head \in {"Rule", "RuleDelayed"} /\ Len(e.elems) = 2
       /\ e.elems[1].head = "Symbol" /\ e.elems[1].name \in OptNames
    THEN [ok |-> TRUE, values |-> [NoOptions EXCEPT ![e.elems[1].name] = e.elems[2]]]
    ELSE IF e.head = "List"
    THEN IF e.elems = <<>> THEN [ok |-> TRUE, values |-> NoOptions]
         ELSE LET first == GetOptionValues(e.elems[1], allow_symbols, stop_on_error)
                  rest  == GetOptionValues(ListE(Tail(e.elems)), allow_symbols,
                                           stop_on_error)
              IN IF ~first.ok /\ stop_on_error THEN [ok |-> FALSE, values |-> NoOptions]
                 ELSE IF ~rest.ok THEN rest
                 ELSE [ok |-> TRUE,
                       values |-> IF first.ok
                                  THEN UpdateOptions(first.values, rest.values)
                                  ELSE rest.values]
    ELSE IF e.head = "Symbol" /\ allow_symbols
    THEN [ok |-> TRUE, values |-> DeclaredOptions(e.name)]
    ELSE [ok |-> FALSE, values |-> NoOptions]

\* isinstance(e, EvalMixin): expressions and symbols
IsEvalMixin(e) == e # NoneE /\ e.head # "Integer" /\ e.head # "String"

(***************************************************************************)
(* The context of a match: pattern_context.                                *)
(***************************************************************************)
\* pattern_context.get("element_index", None) when the key is absent
NoIndex == 0

Context(vars_dict, k) ==
    [vars_dict |-> vars_dict, head |-> NoneE, element_index |-> NoIndex,
     element_count |-> NoIndex, k |-> k]

\* the caller's yield_func: records the call
KCollect == [f |-> "collect"]

\* Except.match: except_yield_func
KExcept == [f |-> "except"]

\* a caller's yield_func that records the call and raises StopGenerator
KFirst == [f |-> "first"]

RECURSIVE Match(_, _, _, _)
RECURSIVE Yield(_, _, _)
RECURSIVE BlankMatch(_, _, _, _)
RECURSIVE BlankSequenceMatch(_, _, _, _)
RECURSIVE BlankNullSequenceMatch(_, _, _, _)
RECURSIVE VerbatimMatch(_, _, _, _)
RECURSIVE HoldPatternMatch(_, _, _, _)
RECURSIVE PatternMatch(_, _, _, _)
RECURSIVE AlternativesMatch(_, _, _, _)
RECURSIVE ExceptMatch(_, _, _, _)
RECURSIVE ConditionMatch(_, _, _, _)
RECURSIVE PatternTestMatch(_, _, _, _)
RECURSIVE PatternTestMatchAtom(_, _, _, _)
RECURSIVE RepeatedMatch(_, _, _, _)
RECURSIVE IterFn(_, _, _, _, _)
RECURSIVE OptionsPatternMatch(_, _, _, _)
RECURSIVE OptionalMatch(_, _, _, _)
RECURSIVE ExpressionMatch(_, _, _, _)
RECURSIVE MatchElements(_, _, _, _)
RECURSIVE TryWidths(_, _, _, _, _)
RECURSIVE AtomMatch(_, _, _, _)

\* PatternTest.match, yield_match: "for item in items: ... else:"
\* a loop that looks at the first item only
AllItemsPassFirstOnly(items, test, testname) ==
    \/ items = <<>>
    \/ QuickPatternTest(Head(items), testname) = "True"
    \/ /\ QuickPatternTest(Head(items), testname) = "None"
       /\ EvaluateTest(Ex(testname, <<Head(items)>>)) = SymbolTrue

\* a guard that lets everything but False through
GuardNotFalse(test, bindings) ==
    EvaluateTest(ReplaceVars(test, bindings)) # SymbolFalse

\* Condition.match, yield_match: test_result is SymbolTrue
GuardHolds(test, bindings) ==
    EvaluateTest(ReplaceVars(test, bindings)) = SymbolTrue

RECURSIVE AllItemsPass(_, _, _)
\* PatternTest.match, yield_match: the for loop reached its else branch
AllItemsPass(items, test, testname) ==
    IF items = <<>> THEN TRUE
    ELSE LET item == Head(items)
             quick_test == QuickPatternTest(item, testname)
         IN IF quick_test = "False" THEN FALSE
            ELSE IF quick_test = "True" THEN AllItemsPass(Tail(items), test, testname)
            ELSE IF EvaluateTest(Ex(testname, <<item>>)) # SymbolTrue THEN FALSE
            ELSE AllItemsPass(Tail(items), test, testname)

RECURSIVE TestedItems(_, _, _)
\* PatternTest.match, yield_match: the items the for loop took before it
\* ended or broke
TestedItems(items, test, testname) ==
    IF items = <<>> THEN <<>>
    ELSE LET item == Head(items)
             quick_test == QuickPatternTest(item, testname)
         IN IF quick_test = "False" THEN <<item>>
            ELSE IF quick_test = "True"
            THEN <<item>> \o TestedItems(Tail(items), test, testname)
            ELSE IF EvaluateTest(Ex(testname, <<item>>)) # SymbolTrue THEN <<item>>
            ELSE <<item>> \o TestedItems(Tail(items), test, testname)

RECURSIVE TestedAtoms(_)
\* PatternTest.match_atom, yield_match: the items looked at
TestedAtoms(items) ==
    IF items = <<>> THEN <<>>
    ELSE IF ~IsAtom(Head(items)) THEN <<Head(items)>>
    ELSE <<Head(items)>> \o TestedAtoms(Tail(items))

\* yield_func(vars_dict, None): run the closures of the continuation
Yield(k, vars_dict, st) ==
    IF st.exc # "none" THEN st
    ELSE LET fr == Head(k) IN
         IF fr.f = "collect"
         THEN [st EXCEPT !.out = Append(st.out,
                            [id |-> vars_dict, vars |-> st.heap[vars_dict]])]
         ELSE IF fr.f = "except"
         THEN [st EXCEPT !.exc = "_StopGeneratorExcept"]
         ELSE IF fr.f = "first"
         THEN [st EXCEPT !.out = Append(st.out,
                            [id |-> vars_dict, vars |-> st.heap[vars_dict]]),
                         !.exc = "StopGenerator"]
         \* Condition.match, yield_match
         ELSE IF fr.f = "condition"
         THEN LET guarded == [st EXCEPT !.guards =
                                 Append(st.guards,
                                        ReplaceVars(fr.test, st.heap[vars_dict]))]
              IN IF GuardHolds(fr.test, st.heap[vars_dict])
                 THEN Yield(Tail(k), vars_dict, guarded)
                 ELSE guarded
         \* PatternTest.match, yield_match
         ELSE IF fr.f = "patterntest"
         THEN LET items == GetSequence(fr.expression)
                  tested == [st EXCEPT !.tests =
                                Append(st.tests,
                                       TestedItems(items, fr.test, fr.test.name))]
              IN IF AllItemsPass(items, fr.test, fr.test.name)
                 THEN Yield(Tail(k), vars_dict, tested)
                 ELSE tested
         \* PatternTest.match_atom, yield_match
         ELSE IF fr.f = "atomq"
         THEN LET items == GetSequence(fr.expression)
                  tested == [st EXCEPT !.tests = Append(st.tests, TestedAtoms(items))]
              IN IF \A i \in 1..Len(items) : IsAtom(items[i])
                 THEN Yield(Tail(k), vars_dict, tested)
                 ELSE tested
         \* Repeated.match, iter_fn, yield_match
         ELSE IF fr.f = "repeated"
         THEN IterFn(fr.pattern, Tail(k), fr.rest, vars_dict, st)
         \* the remaining sub-patterns of an expression pattern
         ELSE IF fr.f = "elements"
         THEN MatchElements(fr.patterns, fr.rest,
                  [vars_dict |-> vars_dict, head |-> fr.head,
                   element_index |-> NoIndex, element_count |-> fr.count,
                   k |-> Tail(k)], st)
         ELSE st

\* Blank.match
BlankMatch(self, expression, ctx, st) ==
    IF ~IsEmptySequence(expression)
    THEN IF self.head # NoneE
         THEN IF sameQ(GetHead(expression), self.head)
              THEN Yield(ctx.k, ctx.vars_dict, st)
              ELSE st
         ELSE Yield(ctx.k, ctx.vars_dict, st)
    ELSE st

\* every element's head is self.head
AllHeads(elements, head) ==
    \A i \in 1..Len(elements) : GetHead(elements[i]) = head

\* a BlankSequence.match that lacks the test for no elements
BlankSequenceMatchNoGuard(self, expression, ctx, st) ==
    LET elements == GetSequence(expression) IN
    IF self.head # NoneE
    THEN IF AllHeads(elements, self.head)
         THEN Yield(ctx.k, ctx.vars_dict, st)
         ELSE st
    ELSE Yield(ctx.k, ctx.vars_dict, st)

\* BlankSequence.match
BlankSequenceMatch(self, expression, ctx, st) ==
    LET elements == GetSequence(expression) IN
    IF elements = <<>> THEN st
    ELSE IF self.head # NoneE
    THEN IF AllHeads(elements, self.head)
         THEN Yield(ctx.k, ctx.vars_dict, st)
         ELSE st
    ELSE Yield(ctx.k, ctx.vars_dict, st)

\* BlankNullSequence.match
BlankNullSequenceMatch(self, expression, ctx, st) ==
    LET elements == GetSequence(expression) IN
    IF self.head # NoneE
    THEN IF AllHeads(elements, self.head)
         THEN Yield(ctx.k, ctx.vars_dict, st)
         ELSE st
    ELSE Yield(ctx.k, ctx.vars_dict, st)

\* Verbatim.match
VerbatimMatch(self, expression, ctx, st) ==
    IF sameQ(self.content, expression)
    THEN Yield(ctx.k, ctx.vars_dict, st)
    ELSE st

\* HoldPattern.match
HoldPatternMatch(self, expression, ctx, st) ==
    Match(self.subs[1], expression, ctx, st)

\* a test that lets every candidate pass for a bound name
RebindAlways(existing, expression) == TRUE

\* Pattern.match: existing.sameQ(expression)
RebindConsistent(existing, expression) == sameQ(existing, expression)

\* Pattern.match
PatternMatch(self, expression, ctx, st) ==
    LET existing == GetItem(st, ctx.vars_dict, self.varname) IN
    IF existing = NoneE
    THEN LET c == CopyDict(st, ctx.vars_dict)
             st2 == SetItem(c.st, c.id, self.varname, expression)
         IN Match(self.subs[1], expression, [ctx EXCEPT !.vars_dict = c.id], st2)
    ELSE IF RebindConsistent(existing, expression)
         THEN Yield(ctx.k, ctx.vars_dict, st)
         ELSE st

RECURSIVE AlternativesLoopFirstOnly(_, _, _, _)
\* a loop that ends with the first alternative that succeeds
AlternativesLoopFirstOnly(alternatives, expression, ctx, st) ==
    IF alternatives = <<>> \/ st.exc # "none" THEN st
    ELSE LET s == Match(Head(alternatives), expression, ctx, st) IN
         IF Len(s.out) > Len(st.out) THEN s
         ELSE AlternativesLoopFirstOnly(Tail(alternatives), expression, ctx, s)

RECURSIVE AlternativesLoop(_, _, _, _)
\* for alternative in self.alternatives: alternative.match(...)
AlternativesLoop(alternatives, expression, ctx, st) ==
    IF alternatives = <<>> \/ st.exc # "none" THEN st
    ELSE AlternativesLoop(Tail(alternatives), expression, ctx,
             Match(Head(alternatives), expression, ctx, st))

\* Alternatives.match
AlternativesMatch(self, expression, ctx, st) ==
    AlternativesLoop(self.subs, expression, ctx, st)

\* an Except.match whose fallback match is not in the else clause of the try
ExceptMatchNoElse(self, expression, ctx, st) ==
    LET st1 == Match(self.subs[1], expression, [ctx EXCEPT !.k = <<KExcept>>], st)
    IN Match(self.subs[2], expression, ctx, [st1 EXCEPT !.exc = "none"])

\* an Except.match whose try statement also covers the fallback match
ExceptMatchCatchAll(self, expression, ctx, st) ==
    LET st1 == Match(self.subs[1], expression, [ctx EXCEPT !.k = <<KExcept>>], st)
    IN IF st1.exc = "_StopGeneratorExcept"
       THEN [st1 EXCEPT !.exc = "none"]
       ELSE IF st1.exc # "none" THEN st1
       ELSE LET st2 == Match(self.subs[2], expression, ctx, st1)
            IN IF st2.exc = "_StopGeneratorExcept"
               THEN [st2 EXCEPT !.exc = "none"]
               ELSE st2

\* Except.match
ExceptMatch(self, expression, ctx, st) ==
    LET st1 == Match(self.subs[1], expression, [ctx EXCEPT !.k = <<KExcept>>], st)
    IN IF st1.exc = "_StopGeneratorExcept"
       THEN [st1 EXCEPT !.exc = "none"]
       ELSE IF st1.exc # "none" THEN st1
       ELSE Match(self.subs[2], expression, ctx, st1)

\* Condition.match
ConditionMatch(self, expression, ctx, st) ==
    Match(self.subs[1], expression,
          [ctx EXCEPT !.k = <<[f |-> "condition", test |-> self.test]>> \o ctx.k], st)

\* PatternTest.match: the inner match gets a context of its own making
PatternTestMatch(self, expression, ctx, st) ==
    Match(self.subs[1], expression,
          [vars_dict |-> ctx.vars_dict, head |-> NoneE, element_index |-> NoIndex,
           element_count |-> NoIndex,
           k |-> <<[f |-> "patterntest", test |-> self.test,
                    expression |-> expression]>> \o ctx.k], st)

\* PatternTest.match_atom: the inner match gets a copy of the context
PatternTestMatchAtom(self, expression, ctx, st) ==
    Match(self.subs[1], expression,
          [ctx EXCEPT !.k = <<[f |-> "atomq", expression |-> expression]>> \o ctx.k],
          st)

\* Repeated.match, iter_fn(yield_iter, rest_elements, vars_dict)
IterFn(pattern, yield_iter, rest_elements, vars_dict, st) ==
    IF st.exc # "none" THEN st
    ELSE IF rest_elements # <<>>
    THEN Match(pattern, rest_elements[1],
               [vars_dict |-> vars_dict, head |-> NoneE, element_index |-> NoIndex,
                element_count |-> NoIndex,
                k |-> <<[f |-> "repeated", pattern |-> pattern,
                         rest |-> Tail(rest_elements)]>> \o yield_iter], st)
    ELSE Yield(yield_iter, vars_dict, st)

\* a match that does not look at self.max
RepeatedMatchNoMax(self, expression, ctx, st) ==
    LET elements == GetSequence(expression) IN
    IF Len(elements) < self.min THEN st
    ELSE IterFn(self.subs[1], ctx.k, elements, ctx.vars_dict, st)

\* Repeated.match
RepeatedMatch(self, expression, ctx, st) ==
    LET elements == GetSequence(expression) IN
    IF Len(elements) < self.min THEN st
    ELSE IF self.max # NoLimit /\ Len(elements) > self.max THEN st
    ELSE IterFn(self.subs[1], ctx.k, elements, ctx.vars_dict, st)

RECURSIVE OptionsLoop(_, _)
\* for options in sequence: ... values.update(option_values)
OptionsLoop(sequence, values) ==
    IF sequence = <<>> THEN [ok |-> TRUE, values |-> values]
    ELSE LET option_values ==
                 IF IsEvalMixin(Head(sequence))
                 THEN GetOptionValues(Head(sequence), FALSE, TRUE)
                 ELSE [ok |-> FALSE, values |-> NoOptions]
         IN IF ~option_values.ok THEN [ok |-> FALSE, values |-> values]
            ELSE OptionsLoop(Tail(sequence), UpdateOptions(values, option_values.values))

RECURSIVE SetOptions(_, _, _, _)
\* for name, value in values.items(): new_vars_dict["_option_" + name] = value
SetOptions(st, id, values, names) ==
    IF names = {} THEN st
    ELSE LET name == CHOOSE o \in names : TRUE IN
         SetOptions(IF values[name] # NoneE
                    THEN SetItem(st, id, "_option_" \o name, values[name])
                    ELSE st,
                    id, values, names \ {name})

\* an instance that never keeps what it resolved
OptionsPatternResolveNothing(self, head) == self

\* OptionsPattern.match: if self.defaults is None: self.defaults = head, or
\* the empty list when there is no head; the instance after these lines
OptionsPatternResolve(self, head) ==
    IF self.content # NoneE THEN self
    ELSE IF head # NoneE THEN [self EXCEPT !.content = head]
    ELSE [self EXCEPT !.content = ListE(<<>>)]

\* OptionsPattern.match
OptionsPatternMatch(self, expression, ctx, st) ==
    LET defaults == OptionsPatternResolve(self, ctx.head).content
        values == IF IsEvalMixin(defaults)
                  THEN GetOptionValues(defaults, TRUE, FALSE).values
                  ELSE NoOptions
        merged == OptionsLoop(GetSequence(expression), values)
    IN IF ~merged.ok THEN st
       ELSE LET c == CopyDict(st, ctx.vars_dict) IN
            Yield(ctx.k, c.id, SetOptions(c.st, c.id, merged.values, OptNames))

(***************************************************************************)
(* Optional.  DefaultValues holds the declared defaults: Default[f] = 0,   *)
(* Default[g, 2] = c, Default[g, 1, 1] = b; h has none.                     *)
(***************************************************************************)
DefaultValues ==
    {[name |-> "f", pos |-> <<>>, value |-> IntE("0")],
     [name |-> "g", pos |-> <<2>>, value |-> Sym("c")],
     [name |-> "g", pos |-> <<1, 1>>, value |-> Sym("b")]}

\* evaluation.definitions.get_value(name, "System`DefaultValues", Default[name, pos])
GetValue(name, pos) ==
    IF \E d \in DefaultValues : d.name = name /\ d.pos = pos
    THEN (CHOOSE d \in DefaultValues : d.name = name /\ d.pos = pos).value
    ELSE NoneE

\* a lookup that knows the position-free default only
GetDefaultValueGeneralOnly(name, k, n) == GetValue(name, <<>>)

RECURSIVE DefaultLoop(_, _, _)
\* for pos_len in reversed(range(len(pos) + 1))
DefaultLoop(name, pos, pos_len) ==
    IF GetValue(name, SubSeq(pos, 1, pos_len)) # NoneE
    THEN GetValue(name, SubSeq(pos, 1, pos_len))
    ELSE IF pos_len = 0 THEN NoneE
    ELSE DefaultLoop(name, pos, pos_len - 1)

\* get_default_value(name, evaluation, k, n)
GetDefaultValue(name, k, n) ==
    LET pos == (IF k # NoIndex THEN <<k>> ELSE <<>>)
                   \o (IF n # NoIndex THEN <<n>> ELSE <<>>)
    IN DefaultLoop(name, pos, Len(pos))

\* Optional.match
OptionalMatch(self, expression, ctx, st) ==
    LET default == IF self.content # NoneE THEN self.content
                   ELSE IF ctx.head = NoneE THEN NoneE
                   ELSE GetDefaultValue(ctx.head.name, ctx.element_index,
                                        ctx.element_count)
    IN IF IsEmptySequence(expression) /\ default = NoneE
       \* evaluation.message("Pattern", "nodef", ...); return
       THEN [st EXCEPT !.msgs = Append(st.msgs, Msg("Pattern", "nodef"))]
       ELSE Match(self.subs[1],
                  IF IsEmptySequence(expression) THEN default ELSE expression,
                  Context(ctx.vars_dict, ctx.k), st)

\* get_match_count: [min, max], max = NoLimit for None
\* the tuple (min, max) a get_match_count returns
MatchCount(min, max) == [min |-> min, max |-> max, exc |-> "none"]

\* a get_match_count that raises
MatchCountRaise(exc) == [min |-> 0, max |-> 0, exc |-> exc]

RECURSIVE AlternativesCountLoop(_, _)
\* Alternatives.get_match_count, the alternatives after the first:
\* range_lst is a tuple, so each assignment into it raises TypeError, and so
\* does the comparison of None with a number
AlternativesCountLoop(counts, range_lst) ==
    IF counts = <<>> THEN range_lst
    ELSE LET sub == Head(counts) IN
         IF sub.exc # "none" THEN sub
         \* if sub[0] < range_lst[0]: range_lst[0] = sub[0]
         ELSE IF sub.min < range_lst.min THEN MatchCountRaise("TypeError")
         \* if range_lst[1] is None ...: range_lst[1] = sub[1]
         ELSE IF range_lst.max = NoLimit THEN MatchCountRaise("TypeError")
         \* ... or sub[1] > range_lst[1]
         ELSE IF sub.max = NoLimit THEN MatchCountRaise("TypeError")
         ELSE IF sub.max > range_lst.max THEN MatchCountRaise("TypeError")
         ELSE AlternativesCountLoop(Tail(counts), range_lst)

\* Alternatives.get_match_count; tuple(None) raises when there is no
\* alternative
AlternativesGetMatchCount(counts) ==
    IF counts = <<>> THEN MatchCountRaise("TypeError")
    ELSE IF Head(counts).exc # "none" THEN Head(counts)
    ELSE AlternativesCountLoop(Tail(counts), Head(counts))

RECURSIVE GetMatchCount(_)
GetMatchCount(self) ==
    CASE self.tag = "BlankSequence" -> MatchCount(1, NoLimit)
      [] self.tag = "BlankNullSequence" -> MatchCount(0, NoLimit)
      [] self.tag = "OptionsPattern" -> MatchCount(0, NoLimit)
      [] self.tag = "Optional" -> MatchCount(0, 1)
      [] self.tag = "Repeated" -> MatchCount(self.min, self.max)
      [] self.tag \in {"Pattern", "PatternTest"} -> GetMatchCount(self.subs[1])
      [] self.tag = "Alternatives" ->
             AlternativesGetMatchCount(
                 [i \in 1..Len(self.subs) |-> GetMatchCount(self.subs[i])])
      [] OTHER -> MatchCount(1, 1)

\* the elements a sub-pattern is tried on: one element, or a Sequence
Wrap(elements) == IF Len(elements) = 1 THEN elements[1] ELSE SeqE(elements)

RECURSIVE TryWidthsWidestFirst(_, _, _, _, _)
\* a search that tries the most elements first
TryWidthsWidestFirst(patterns, elements, ctx, st, w) ==
    LET count == GetMatchCount(patterns[1])
        hi == IF count.max = NoLimit \/ count.max > Len(elements) THEN Len(elements)
              ELSE count.max
        width == hi - (w - count.min)
    IN IF st.exc # "none" \/ w > hi THEN st
       ELSE TryWidthsWidestFirst(patterns, elements, ctx,
                Match(patterns[1], Wrap(SubSeq(elements, 1, width)),
                      [ctx EXCEPT
                          !.element_index = ctx.element_count - Len(patterns) + 1,
                          !.k =
                          <<[f |-> "elements", patterns |-> Tail(patterns),
                             rest |-> SubSeq(elements, width + 1, Len(elements)),
                             head |-> ctx.head, count |-> ctx.element_count]>>
                              \o ctx.k], st),
                w + 1)

\* widths from w up, the fewest elements first
TryWidths(patterns, elements, ctx, st, w) ==
    LET count == GetMatchCount(patterns[1]) IN
    IF st.exc # "none" \/ w > Len(elements) \/ (count.max # NoLimit /\ w > count.max)
    THEN st
    ELSE TryWidths(patterns, elements, ctx,
             Match(patterns[1], Wrap(SubSeq(elements, 1, w)),
                   [ctx EXCEPT
                       !.element_index = ctx.element_count - Len(patterns) + 1,
                       !.k =
                       <<[f |-> "elements", patterns |-> Tail(patterns),
                          rest |-> SubSeq(elements, w + 1, Len(elements)),
                          head |-> ctx.head, count |-> ctx.element_count]>>
                           \o ctx.k], st),
             w + 1)

\* the sub-patterns share the element list, left to right
MatchElements(patterns, elements, ctx, st) ==
    IF st.exc # "none" THEN st
    ELSE IF patterns = <<>>
    THEN IF elements = <<>> THEN Yield(ctx.k, ctx.vars_dict, st) ELSE st
    ELSE IF GetMatchCount(patterns[1]).exc # "none"
    THEN [st EXCEPT !.exc = GetMatchCount(patterns[1]).exc]
    ELSE TryWidths(patterns, elements, ctx, st, GetMatchCount(patterns[1]).min)

\* an expression pattern: the head matches, the elements are partitioned
ExpressionMatch(self, expression, ctx, st) ==
    IF IsAtom(expression) \/ ~sameQ(GetHead(expression), self.head) THEN st
    ELSE MatchElements(self.subs, expression.elems,
                       [ctx EXCEPT !.head = GetHead(expression),
                                   !.element_index = NoIndex,
                                   !.element_count = Len(self.subs)], st)

\* an atom matches what is the same as it
AtomMatch(self, expression, ctx, st) ==
    IF sameQ(self.content, expression)
    THEN Yield(ctx.k, ctx.vars_dict, st)
    ELSE st

\* pattern.match(expression, pattern_context)
Match(self, expression, ctx, st) ==
    IF st.exc # "none" THEN st
    ELSE CASE self.tag = "Blank" -> BlankMatch(self, expression, ctx, st)
           [] self.tag = "BlankSequence" -> BlankSequenceMatch(self, expression, ctx, st)
           [] self.tag = "BlankNullSequence" ->
                  BlankNullSequenceMatch(self, expression, ctx, st)
           [] self.tag = "Verbatim" -> VerbatimMatch(self, expression, ctx, st)
           [] self.tag = "HoldPattern" -> HoldPatternMatch(self, expression, ctx, st)
           [] self.tag = "Pattern" -> PatternMatch(self, expression, ctx, st)
           [] self.tag = "Alternatives" -> AlternativesMatch(self, expression, ctx, st)
           [] self.tag = "Except" -> ExceptMatch(self, expression, ctx, st)
           [] self.tag = "Condition" -> ConditionMatch(self, expression, ctx, st)
           [] self.tag = "PatternTest" ->
                  IF self.test.name \in FastTests
                  THEN PatternTestMatchAtom(self, expression, ctx, st)
                  ELSE PatternTestMatch(self, expression, ctx, st)
           [] self.tag = "Repeated" -> RepeatedMatch(self, expression, ctx, st)
           [] self.tag = "OptionsPattern" ->
                  OptionsPatternMatch(self, expression, ctx, st)
           [] self.tag = "Optional" -> OptionalMatch(self, expression, ctx, st)
           [] self.tag = "Expression" -> ExpressionMatch(self, expression, ctx, st)
           [] self.tag = "Atom" -> AtomMatch(self, expression, ctx, st)

(***************************************************************************)
(* The match system: one call of a match procedure at a time, by a caller  *)
(* that owns the dict heap[1] and collects what its yield_func receives.   *)
(***************************************************************************)
RunElements == {Sym("a"), Sym("b"), IntE("5")}

Runs == SeqsUpTo(RunElements, MaxRun)

Candidates ==
    {Wrap(r) : r \in Runs \ {<<>>}}
        \cup {SeqE(<<>>)}
        \cup {Ex("f", r) : r \in Runs}
        \cup {Ex("Rule", <<Sym("n"), IntE("1")>>)}

SymbolSymbol == Sym("Symbol")

BlankX == PPattern("x", PBlank(NoneE))

LeafPatterns ==
    {PBlank(NoneE), PBlank(SymbolSymbol), PBlank(Sym("Integer")),
     PBlankSequence(NoneE), PBlankSequence(SymbolSymbol),
     PBlankNullSequence(NoneE), PBlankNullSequence(SymbolSymbol),
     PVerbatim(Sym("a"))}

NamedPatterns ==
    {PPattern(v, p) : v \in {"x", "y"},
                      p \in {PBlank(NoneE), PBlank(Sym("Integer")),
                             PBlankSequence(NoneE), PBlankNullSequence(NoneE)}}
        \cup {PPattern("y", BlankX), PPattern("x", POptionsPattern(NoneE))}

GuardedPatterns ==
    {PCondition(BlankX, t) :
         t \in {Ex("SameQ", <<Sym("x"), Sym("a")>>), SymbolTrue,
                Ex("g", <<Sym("x")>>)}}
        \cup {PPatternTest(p, Sym(t)) :
                 p \in {PBlank(NoneE), BlankX, PBlankNullSequence(NoneE)},
                 t \in {"IntegerQ", "p", "AtomQ", "NotNegativePowerQ",
                        "NegativePowerQ"}}

RepeatedPatterns ==
    {PRepeated(p, m[1], m[2]) :
         p \in {BlankX, PBlank(SymbolSymbol), PPattern("y", PBlank(NoneE))},
         m \in {<<1, NoLimit>>, <<0, NoLimit>>, <<1, 1>>}}

OptionsPatterns ==
    {POptionsPattern(NoneE),
     POptionsPattern(ListE(<<Ex("Rule", <<Sym("m"), IntE("5")>>)>>)),
     POptionsPattern(Sym("f")),
     POptionsPattern(IntE("5"))}

InnerPatterns == LeafPatterns \cup NamedPatterns

AlternativesPatterns ==
    {PAlternatives(<<p, q>>) :
         p \in {BlankX, PPattern("x", PBlank(Sym("Integer"))), PVerbatim(Sym("a"))},
         q \in {PPattern("y", PBlank(NoneE)), BlankX, PBlank(SymbolSymbol)}}
        \cup {PAlternatives(<<PExcept2(BlankX, PBlank(NoneE)),
                              PPattern("y", PBlank(NoneE))>>)}

ExceptC ==
    InnerPatterns
        \cup {PExcept1(PBlank(SymbolSymbol)), PAlternatives(<<BlankX, PBlank(NoneE)>>),
              PCondition(BlankX, Ex("SameQ", <<Sym("x"), Sym("a")>>)),
              PPatternTest(PBlank(NoneE), Sym("IntegerQ"))}

ExceptP ==
    {PBlank(SymbolSymbol), PPattern("y", PBlank(NoneE)), PBlankNullSequence(NoneE),
     PPattern("x", PBlankNullSequence(NoneE))}

ExceptPatterns ==
    {PExcept1(c) : c \in ExceptC} \cup {PExcept2(c, p) : c \in ExceptC, p \in ExceptP}

ExpressionPatterns ==
    {PExpression(Sym("f"), <<p, q>>) :
         p \in {BlankX, PPattern("x", PBlankNullSequence(NoneE))},
         q \in {BlankX, PPattern("y", PBlank(NoneE)),
                PPattern("y", PBlankNullSequence(NoneE)),
                PPattern("x", PBlankNullSequence(NoneE))}}
        \cup {PExpression(Sym("f"), <<POptionsPattern(NoneE)>>),
              PExpression(Sym("f"), <<PHoldPattern(BlankX)>>)}

Patterns ==
    LeafPatterns \cup NamedPatterns \cup GuardedPatterns \cup RepeatedPatterns
        \cup OptionsPatterns \cup AlternativesPatterns \cup ExceptPatterns
        \cup ExpressionPatterns \cup {PHoldPattern(BlankX)}

\* the environments a caller arrives with
InitialVars ==
    {EmptyVars} \cup {[EmptyVars EXCEPT !["x"] = v] : v \in {Sym("a"), IntE("5")}}

\* the outcome of pattern.match(expression, {"vars_dict": vars0, ...})
RunMatch(self, expression, vars0) ==
    Match(self, expression, Context(1, <<KCollect>>), MachineInit(vars0))

CallMatch(self, expression, vars0) ==
    /\ mt.pc = "idle"
    /\ mt' = [pc |-> "done", self |-> self, expression |-> expression,
              vars0 |-> vars0, st |-> RunMatch(self, expression, vars0)]
    /\ UNCHANGED <<cr, rr, rl, rp, cp>>

InitMatch == cr = CRIdle /\ rr = RRIdle /\ rl = RLIdle /\ mt = MTIdle /\ rp = RPIdle /\ cp = CPIdle

NextMatch ==
    /\ mt.pc = "idle"
    /\ \E self \in Patterns, expression \in Candidates, vars0 \in InitialVars :
           CallMatch(self, expression, vars0)

SpecMatch == InitMatch /\ [][NextMatch]_vars

(***************************************************************************)
(* What the caller of the recorded call observed.                          *)
(***************************************************************************)
\* the one call a success without a new binding makes
Unchanged == <<[id |-> 1, vars |-> mt.vars0]>>

\* the continuation was invoked
Succeeded(st) == st.out # <<>>

\* the environments the continuation received, in order
YieldedVars(st) == [i \in 1..Len(st.out) |-> st.out[i].vars]

\* C5: a Pattern whose name is already bound invokes the continuation once,
\* with the unchanged environment, when the binding is structurally equal to
\* the candidate, and not at all otherwise; hence f[x_, x_] matches f[u, v]
\* exactly when u and v are equal.
C5_RebindingConsistency ==
    mt.pc = "done" =>
        /\ (mt.self.tag = "Pattern" /\ mt.vars0[mt.self.varname] # NoneE) =>
               mt.st.out = IF mt.vars0[mt.self.varname] = mt.expression
                           THEN Unchanged ELSE <<>>
        /\ (/\ mt.self = PExpression(Sym("f"), <<BlankX, BlankX>>)
            /\ mt.vars0 = EmptyVars
            /\ mt.expression.head = "f"
            /\ Len(mt.expression.elems) = 2) =>
               (Succeeded(mt.st) <=> mt.expression.elems[1] = mt.expression.elems[2])

\* f[x_, x_] has matched f[a, a]: the second x_ met the binding of the first
C5_Witness ==
    /\ mt.pc = "done"
    /\ mt.self = PExpression(Sym("f"), <<BlankX, BlankX>>)
    /\ mt.expression = Ex("f", <<Sym("a"), Sym("a")>>)
    /\ mt.vars0 = EmptyVars
    /\ Len(mt.st.out) = 1
    /\ mt.st.out[1].vars["x"] = Sym("a")

\* the one-argument form Except[c]
IsExcept1(self) == self.tag = "Except" /\ self.subs[2] = PBlank(NoneE)

\* Except[c, p] succeeds iff c fails and p succeeds
ExceptWithFallback ==
    (mt.self.tag = "Except" /\ ~IsExcept1(mt.self)) =>
        (Succeeded(mt.st) <=>
            /\ ~Succeeded(RunMatch(mt.self.subs[1], mt.expression, mt.vars0))
            /\ Succeeded(RunMatch(mt.self.subs[2], mt.expression, mt.vars0)))

\* C6: Except[c] invokes the continuation iff c does not, on every candidate,
\* the empty sequence included; Except[c, p] succeeds iff c fails and p
\* succeeds.
C6_ExceptIsNegation ==
    mt.pc = "done" =>
        /\ IsExcept1(mt.self) =>
               (Succeeded(mt.st) <=>
                   ~Succeeded(RunMatch(mt.self.subs[1], mt.expression, mt.vars0)))
        /\ ExceptWithFallback

\* C6: Except[c] invokes the continuation iff c does not, on every candidate
\* but the empty sequence, on which Except[c] never invokes it; Except[c, p]
\* succeeds iff c fails and p succeeds.
C6_ExceptIsNegationOffEmpty ==
    mt.pc = "done" =>
        /\ (IsExcept1(mt.self) /\ ~IsEmptySequence(mt.expression)) =>
               (Succeeded(mt.st) <=>
                   ~Succeeded(RunMatch(mt.self.subs[1], mt.expression, mt.vars0)))
        /\ (IsExcept1(mt.self) /\ IsEmptySequence(mt.expression)) =>
               ~Succeeded(mt.st)
        /\ ExceptWithFallback

\* Except[_Symbol] on the empty sequence: _Symbol fails, and so does Except
C6_Witness ==
    /\ mt.pc = "done"
    /\ mt.self = PExcept1(PBlank(SymbolSymbol))
    /\ IsEmptySequence(mt.expression)
    /\ ~Succeeded(RunMatch(PBlank(SymbolSymbol), mt.expression, mt.vars0))
    /\ ~Succeeded(mt.st)

\* C7: BlankSequence never invokes the continuation on the empty sequence,
\* BlankNullSequence invokes it there exactly once with the unchanged
\* environment, and on a non-empty run with a head constraint each invokes
\* it once iff every element has that head.
C7_SequenceWildcardArity ==
    mt.pc = "done" =>
        LET elements == GetSequence(mt.expression) IN
        /\ (mt.self.tag = "BlankSequence" /\ elements = <<>>) => mt.st.out = <<>>
        /\ (mt.self.tag = "BlankNullSequence" /\ elements = <<>>) =>
               mt.st.out = Unchanged
        /\ (/\ mt.self.tag \in {"BlankSequence", "BlankNullSequence"}
            /\ elements # <<>>
            /\ mt.self.head # NoneE) =>
               mt.st.out = IF \A i \in 1..Len(elements) :
                                  GetHead(elements[i]) = mt.self.head
                           THEN Unchanged ELSE <<>>

\* __Symbol has been tried on the empty sequence
C7_Witness ==
    /\ mt.pc = "done"
    /\ mt.self = PBlankSequence(SymbolSymbol)
    /\ mt.expression = SeqE(<<>>)
    /\ mt.st.out = <<>>

\* the match procedures that make or pass on bindings
BindingTags ==
    {"Pattern", "OptionsPattern", "Condition", "PatternTest", "Repeated",
     "Alternatives", "Except"}

RECURSIVE BranchYields(_, _, _)
\* what each branch yields when it alone is matched from the caller's dict
BranchYields(branches, expression, vars0) ==
    IF branches = <<>> THEN <<>>
    ELSE YieldedVars(RunMatch(Head(branches), expression, vars0))
             \o BranchYields(Tail(branches), expression, vars0)

\* C8: after a call of the match procedure of Pattern, OptionsPattern,
\* Condition, PatternTest, Repeated, Alternatives or Except the caller's dict
\* holds the bindings it held before; an alternative sees no binding of the
\* alternatives before it, and the fallback of Except none of the excluded
\* pattern.
C8_NoInPlaceMutation ==
    (mt.pc = "done" /\ mt.self.tag \in BindingTags) =>
        /\ mt.st.heap[1] = mt.vars0
        /\ mt.self.tag = "Alternatives" =>
               YieldedVars(mt.st) = BranchYields(mt.self.subs, mt.expression, mt.vars0)
        /\ (mt.self.tag = "Except" /\ Succeeded(mt.st)) =>
               YieldedVars(mt.st) =
                   BranchYields(<<mt.self.subs[2]>>, mt.expression, mt.vars0)

\* x_Integer | y_ on a: the first alternative bound x in a copy and failed,
\* the second yielded y alone
C8_Witness ==
    /\ mt.pc = "done"
    /\ mt.self = PAlternatives(<<PPattern("x", PBlank(Sym("Integer"))),
                                 PPattern("y", PBlank(NoneE))>>)
    /\ mt.expression = Sym("a")
    /\ mt.vars0 = EmptyVars
    /\ Len(mt.st.heap) = 3
    /\ mt.st.heap[2]["x"] = Sym("a")
    /\ YieldedVars(mt.st) = <<[EmptyVars EXCEPT !["y"] = Sym("a")]>>

(***************************************************************************)
(* ReplaceList.eval: "ReplaceList[expr_, rules_, maxidx_:Infinity]".       *)
(***************************************************************************)
Digits == <<"0", "1", "2", "3", "4", "5", "6", "7", "8", "9">>

IntStr(n) == IF n < 0 THEN "-" \o Digits[1 - n] ELSE Digits[n + 1]

IntOf(n) == IntE(IntStr(n))

SymbolInfinity == Sym("Infinity")

\* maxidx.get_int_value(): ok is FALSE for None
GetIntValue(e) ==
    IF e.head = "Integer" /\ \E n \in -9..9 : IntStr(n) = e.name
    THEN [ok |-> TRUE, value |-> CHOOSE n \in -9..9 : IntStr(n) = e.name]
    ELSE [ok |-> FALSE, value |-> 0]

RECURSIVE Compile(_)
\* BasePattern.create(expr): the pattern object of a pattern expression
Compile(e) ==
    LET subs == [i \in 1..Len(e.elems) |-> Compile(e.elems[i])]
        h == IF e.elems = <<>> THEN NoneE ELSE e.elems[1]
    IN  IF IsAtom(e) THEN PAtom(e)
        ELSE IF e.head = "Blank" THEN PBlank(h)
        ELSE IF e.head = "BlankSequence" THEN PBlankSequence(h)
        ELSE IF e.head = "BlankNullSequence" THEN PBlankNullSequence(h)
        ELSE IF e.head = "Pattern" /\ Len(e.elems) = 2
        THEN PPattern(e.elems[1].name, subs[2])
        ELSE IF e.head = "Alternatives" THEN PAlternatives(subs)
        ELSE PExpression(Sym(e.head), subs)

\* the first max_list members of a list, all of them for None (-1)
Truncate(list, max_list) ==
    IF max_list = -1 \/ Len(list) <= max_list THEN list
    ELSE SubSeq(list, 1, max_list)

\* rule.apply(expr, evaluation, return_list=True, max_list=max_list): one
\* result for each success of the pattern, in the order of the successes
RuleApplyList(rule, expr, max_list) ==
    LET st == RunMatch(Compile(rule.pattern), expr, EmptyVars)
    IN Truncate([i \in 1..Len(st.out) |-> ReplaceVars(rule.replace, st.out[i].vars)],
                max_list)

RECURSIVE ReplaceListLoop(_, _, _, _)
\* for rule in rules: list_result.extend(rule.apply(...))
ReplaceListLoop(rules, expr, max_count, list_result) ==
    IF rules = <<>> THEN list_result
    ELSE ReplaceListLoop(Tail(rules), expr, max_count,
             list_result \o RuleApplyList(Head(rules), expr, max_count))

ReplaceListEval(expr, rules_expr, maxidx) ==
    LET iv == GetIntValue(maxidx)
        max_count == IF maxidx = SymbolInfinity THEN -1 ELSE iv.value
    IN  IF maxidx # SymbolInfinity /\ (~iv.ok \/ iv.value < 0)
        THEN DriverResult("return", NoneE, FALSE, <<Msg("ReplaceList", "innf")>>)
        ELSE LET c == CreateRules(rules_expr, expr, "ReplaceList", <<maxidx>>) IN
             \* except PatternError: evaluation.message("Replace", "reps", rules)
             IF c.kind = "raise" /\ c.exc = "PatternError"
             THEN DriverResult("return", NoneE, FALSE, <<Msg("Replace", "reps")>>)
             ELSE IF c.kind = "raise" THEN DriverResult(c.exc, NoneE, FALSE, c.msgs)
             ELSE IF c.kind = "object"
             THEN DriverResult("TypeError", NoneE, FALSE, c.msgs)
             ELSE IF c.ret THEN DriverResult("return", c.value, FALSE, c.msgs)
             ELSE DriverResult("return",
                      ListE(ReplaceListLoop(c.rules, expr, max_count, <<>>)),
                      TRUE, c.msgs)

(***************************************************************************)
(* The ReplaceList system: one call at a time.                             *)
(***************************************************************************)
NamedBlank(v) == Ex("Pattern", <<Sym(v), Ex("Blank", <<>>)>>)

NamedBlankNullSequence(v) == Ex("Pattern", <<Sym(v), Ex("BlankNullSequence", <<>>)>>)

RLRules ==
    {Ex("Rule", <<Sym("a"), Sym("b")>>),
     Ex("Rule", <<NamedBlank("x"), Ex("g", <<Sym("x")>>)>>),
     Ex("RuleDelayed", <<Ex("Alternatives", <<NamedBlank("x"), NamedBlank("y")>>),
                         Ex("g", <<Sym("x"), Sym("y")>>)>>),
     Ex("Rule", <<Ex("f", <<NamedBlankNullSequence("x"), NamedBlankNullSequence("y")>>),
                  Ex("g", <<Sym("x"), Sym("y")>>)>>)}

RLRuleArgs ==
    RLRules
        \cup {ListE(l) : l \in SeqsUpTo(RLRules, MaxRuleListLen)}
        \cup {ListE(<<ListE(<<r>>), ListE(<<q>>)>>) : r \in RLRules, q \in RLRules}
        \cup {IntE("5"), ListE(<<IntE("5")>>),
              ListE(<<Ex("Rule", <<Sym("a"), Sym("b")>>),
                      ListE(<<Ex("Rule", <<Sym("a"), Sym("b")>>)>>)>>),
              DispatchInit(<<Ex("Rule", <<Sym("a"), Sym("b")>>)>>),
              Ex("Dispatch", <<ListE(<<Ex("Rule", <<Sym("a"), Sym("b")>>)>>)>>)}

RLExprs == {Sym("a")} \cup {Ex("f", r) : r \in SeqsUpTo({Sym("a"), Sym("b")}, MaxRun)}

MaxIdxArgs == {SymbolInfinity, Sym("a")} \cup {IntOf(n) : n \in -1..MaxCount}

CallReplaceList(expr, rules_expr, maxidx) ==
    /\ rl.pc = "idle"
    /\ rl' = [pc |-> "done", expr |-> expr, rules_expr |-> rules_expr,
              maxidx |-> maxidx, res |-> ReplaceListEval(expr, rules_expr, maxidx)]
    /\ UNCHANGED <<cr, rr, mt, rp, cp>>

InitRL == cr = CRIdle /\ rr = RRIdle /\ rl = RLIdle /\ mt = MTIdle /\ rp = RPIdle /\ cp = CPIdle

NextRL ==
    /\ rl.pc = "idle"
    /\ \E expr \in RLExprs, rules_expr \in RLRuleArgs, maxidx \in MaxIdxArgs :
           CallReplaceList(expr, rules_expr, maxidx)

SpecRL == InitRL /\ [][NextRL]_vars

\* the call applied a flat list of rules with the maximum count n
AppliedWithCount(n) ==
    /\ rl.pc = "done"
    /\ rl.res.outcome = "return"
    /\ rl.res.applied
    /\ rl.maxidx = IntOf(n)

\* C3: with a maximum count n >= 0, ReplaceList returns at most n results,
\* for one rule and for a flat list of several rules.
C3_AtMostNResults ==
    \A n \in 0..MaxCount :
        AppliedWithCount(n) => Len(rl.res.value.elems) <= n

\* C4: ReplaceList with the maximum count n returns the first n results of
\* ReplaceList with the maximum count n + 1, for every rule list.
C4_PrefixStable ==
    \A n \in 0..MaxCount :
        AppliedWithCount(n) =>
            rl.res.value.elems =
                Truncate(ReplaceListEval(rl.expr, rl.rules_expr, IntOf(n + 1)).value.elems,
                         n)

(***************************************************************************)
(* Replace.eval_levelspec: "Replace[expr_, rules_, ls_:{0}, Heads -> h]".  *)
(* Rules are applied by matching; the levels are walked deepest first.     *)
(***************************************************************************)
\* python_levelspec(ls): [l1, l2], l2 = -1 for None
PythonLevelspec(ls) ==
    IF ls = Sym("All") THEN [l1 |-> 0, l2 |-> -1]
    ELSE IF ls = SymbolInfinity THEN [l1 |-> 1, l2 |-> -1]
    ELSE IF ls.head = "List" /\ Len(ls.elems) = 1
    THEN [l1 |-> GetIntValue(ls.elems[1]).value, l2 |-> GetIntValue(ls.elems[1]).value]
    ELSE IF ls.head = "List"
    THEN [l1 |-> GetIntValue(ls.elems[1]).value, l2 |-> GetIntValue(ls.elems[2]).value]
    ELSE [l1 |-> 1, l2 |-> GetIntValue(ls).value]

\* a level test that lets every level pass
InLevelAlways(level, levelspec) == TRUE

\* if level < l1: ...  elif l2 is not None and level > l2: ...
InLevel(level, levelspec) ==
    /\ level >= levelspec.l1
    /\ (levelspec.l2 = -1 \/ level <= levelspec.l2)

\* rule.apply(expr, evaluation, fully=False): the substitution of the first
\* success, ok is FALSE for None
RuleApply(rule, expr) ==
    LET st == RunMatch(Compile(rule.pattern), expr, EmptyVars) IN
    IF Succeeded(st)
    THEN [ok |-> TRUE, result |-> ReplaceVars(rule.replace, st.out[1].vars)]
    ELSE [ok |-> FALSE, result |-> expr]

RECURSIVE ApplyFirstRule(_, _)
\* for rule in rules: result = rule.apply(...); if result is not None: return
ApplyFirstRule(rules, expr) ==
    IF rules = <<>> THEN [result |-> expr, applied |-> FALSE]
    ELSE LET r == RuleApply(Head(rules), expr) IN
         IF r.ok THEN [result |-> r.result, applied |-> TRUE]
         ELSE ApplyFirstRule(Tail(rules), expr)

\* BaseElement.do_apply_rules(rules, evaluation, level, options)
NodeApplyRules(rules, expr, level, options) ==
    IF ~InLevel(level, options.levelspec) THEN [result |-> expr, applied |-> FALSE]
    ELSE ApplyFirstRule(rules, expr)

RECURSIVE LevelApplyRules(_, _, _, _)
\* Expression.do_apply_rules(rules, evaluation, level, options) in Replace
\* mode: the elements first, then the node, then (Heads) its head
LevelApplyRules(rules, expr, level, options) ==
    IF IsAtom(expr) THEN NodeApplyRules(rules, expr, level, options)
    ELSE LET sub == [k \in 1..Len(expr.elems) |->
                        LevelApplyRules(rules, expr.elems[k], level + 1, options)]
             descended == [expr EXCEPT !.elems =
                              [k \in 1..Len(expr.elems) |-> sub[k].result]]
             below == \E k \in 1..Len(expr.elems) : sub[k].applied
             node == NodeApplyRules(rules, descended, level, options)
             head == NodeApplyRules(rules, GetHead(descended), level, options)
         IN IF node.applied \/ ~options.heads
            THEN [result |-> node.result, applied |-> below \/ node.applied]
            ELSE [result |-> [descended EXCEPT !.head = head.result.name],
                  applied |-> below \/ head.applied]

ReplaceEval(expr, rules_expr, ls, heads) ==
    LET c == CreateRules(rules_expr, expr, "Replace", <<>>) IN
    \* except PatternError: evaluation.message("Replace", "reps", rules)
    IF c.kind = "raise" /\ c.exc = "PatternError"
    THEN DriverResult("return", NoneE, FALSE, <<Msg("Replace", "reps")>>)
    ELSE IF c.kind = "raise" THEN DriverResult(c.exc, NoneE, FALSE, c.msgs)
    ELSE IF c.kind = "object" THEN DriverResult("TypeError", NoneE, FALSE, c.msgs)
    ELSE IF c.ret THEN DriverResult("return", c.value, FALSE, c.msgs)
    ELSE DriverResult("return",
             LevelApplyRules(c.rules, expr, 0,
                 [levelspec |-> PythonLevelspec(ls), heads |-> heads]).result,
             TRUE, c.msgs)

(***************************************************************************)
(* The Replace system: one call at a time.  Every replacement of these     *)
(* rules is a symbol, so a rewritten head is a symbol again.               *)
(***************************************************************************)
RPRules ==
    {Ex("Rule", <<Sym("a"), Sym("b")>>),
     Ex("Rule", <<Sym("f"), Sym("g")>>),
     Ex("Rule", <<Ex("f", <<Sym("a")>>), Sym("c")>>),
     Ex("Rule", <<Ex("Pattern", <<Sym("x"), Ex("Blank", <<Sym("Integer")>>)>>),
                  Sym("c")>>)}

RPRuleArgs ==
    RPRules
        \cup {ListE(l) : l \in SeqsUpTo(RPRules, MaxRuleListLen)}
        \cup {IntE("5"), ListE(<<ListE(<<Ex("Rule", <<Sym("a"), Sym("b")>>)>>)>>)}

RPExprs ==
    {Sym("a"), IntE("5"), Ex("f", <<Sym("a")>>), Ex("f", <<Sym("a"), IntE("5")>>),
     Ex("h", <<Ex("f", <<Sym("a")>>)>>), ListE(<<Sym("a"), Sym("f")>>)}

DefaultLevelspec == ListE(<<IntOf(0)>>)

Levelspecs ==
    {DefaultLevelspec, ListE(<<IntOf(1)>>), IntOf(1), IntOf(2), Sym("All"),
     SymbolInfinity, ListE(<<IntOf(1), IntOf(2)>>)}

CallReplace(expr, rules_expr, ls, heads) ==
    /\ rp.pc = "idle"
    /\ rp' = [pc |-> "done", expr |-> expr, rules_expr |-> rules_expr, ls |-> ls,
              heads |-> heads, out |-> CreateRules(rules_expr, expr, "Replace", <<>>),
              res |-> ReplaceEval(expr, rules_expr, ls, heads)]
    /\ UNCHANGED <<cr, rr, rl, mt, cp>>

InitRP ==
    cr = CRIdle /\ rr = RRIdle /\ rl = RLIdle /\ mt = MTIdle /\ rp = RPIdle /\ cp = CPIdle

NextRP ==
    /\ rp.pc = "idle"
    /\ \E expr \in RPExprs, rules_expr \in RPRuleArgs, ls \in Levelspecs,
          heads \in BOOLEAN :
           CallReplace(expr, rules_expr, ls, heads)

SpecRP == InitRP /\ [][NextRP]_vars

RECURSIVE SubExpressions(_)
\* the node and everything below it, heads left out
SubExpressions(e) ==
    {e} \cup UNION {SubExpressions(e.elems[k]) : k \in 1..Len(e.elems)}

\* some rule of the list matches the node
SomeRuleMatches(rules, e) == ApplyFirstRule(rules, e).applied

X1 == Ex("x", <<IntE("1")>>)

RAExprs ==
    {X1, IntE("1"), Sym("y"), Sym("a"), Ex("f", <<X1>>), ListE(<<X1, IntE("1")>>),
     Ex("f", <<Ex("f", <<Sym("y")>>), IntE("1")>>)}

RARules ==
    {Ex("Rule", <<X1, Sym("y")>>), Ex("Rule", <<IntE("1"), IntE("2")>>),
     Ex("Rule", <<Sym("y"), IntE("1")>>), Ex("Rule", <<IntE("1"), X1>>),
     Ex("RuleDelayed", <<Ex("f", <<X1>>), Sym("b")>>)}

RARuleArgs ==
    RARules
        \cup {ListE(l) : l \in SeqsUpTo(RARules, MaxRuleListLen)}
        \cup {DispatchInit(l) : l \in SeqsUpTo(RARules, 1)}
        \cup {IntE("5"), ListE(<<ListE(<<Ex("Rule", <<X1, Sym("y")>>)>>)>>)}

NextRA ==
    /\ cr.pc = "idle"
    /\ \E expr \in RAExprs, rules_expr \in RARuleArgs :
           CallReplaceAll(expr, rules_expr)

SpecRA == InitCR /\ [][NextRA]_vars

\* the call normalised a flat rule list and applied it
AppliedRules ==
    /\ cr.pc = "done"
    /\ cr.out.kind = "tuple"
    /\ ~cr.out.ret
    /\ cr.res.outcome = "return"

\* the rules whose left-hand side is the node
MatchingRules(rules, e) == {i \in 1..Len(rules) : rules[i].pattern = e}

\* the least member of a non-empty set of indices
Least(S) == CHOOSE i \in S : \A j \in S : i <= j

\* C12: ReplaceAll visits the outermost node first: when rules match a node
\* the result there is the replacement of the first of them in list order,
\* left as it is, and nothing below the node is rewritten; only a node that
\* no rule matches is rebuilt from its rewritten elements.
C12_ShallowestFirst ==
    AppliedRules =>
        LET rules == cr.out.rules
            e == cr.expr
        IN IF MatchingRules(rules, e) # {}
           THEN cr.res.value = rules[Least(MatchingRules(rules, e))].replace
           ELSE /\ cr.res.value.head = e.head
                /\ Len(cr.res.value.elems) = Len(e.elems)
                /\ \A k \in 1..Len(e.elems) :
                       cr.res.value.elems[k] =
                           ReplaceAllEval(e.elems[k], cr.rules_expr).value

\* ReplaceAll[x[1], {x[1] -> y, 1 -> 2}] is y: the inner 1 is left alone
C12_Witness ==
    /\ AppliedRules
    /\ cr.expr = X1
    /\ cr.rules_expr = ListE(<<Ex("Rule", <<X1, Sym("y")>>),
                               Ex("Rule", <<IntE("1"), IntE("2")>>)>>)
    /\ cr.res.value = Sym("y")

\* C13: when no rule of a valid rule list matches the expression or one of
\* its sub-expressions, ReplaceAll returns the expression and emits no
\* diagnostic.
C13_IdentityOnNoMatch ==
    (/\ AppliedRules
     /\ \A e \in SubExpressions(cr.expr) : MatchingRules(cr.out.rules, e) = {}) =>
        /\ cr.res.value = cr.expr
        /\ cr.res.msgs = <<>>

\* f[x[1]] under the one rule y -> 1, which matches nowhere in it
C13_Witness ==
    /\ AppliedRules
    /\ cr.expr = Ex("f", <<X1>>)
    /\ cr.rules_expr = ListE(<<Ex("Rule", <<Sym("y"), IntE("1")>>)>>)
    /\ cr.res.value = cr.expr
    /\ cr.res.msgs = <<>>

(***************************************************************************)
(* Positional matching: f[x : p, y : q] against f[e1, ..., en].            *)
(***************************************************************************)
PosInner ==
    {PBlank(NoneE), PBlankSequence(NoneE), PBlankNullSequence(NoneE),
     PBlankSequence(SymbolSymbol), PBlankNullSequence(Sym("Integer"))}

PosPatterns ==
    {PExpression(Sym("f"), <<PPattern("x", p), PPattern("y", q)>>) :
         p \in PosInner, q \in PosInner}

ABCD == Ex("f", <<Sym("a"), Sym("b"), Sym("c"), Sym("d")>>)

PosCandidates ==
    {Ex("f", r) : r \in SeqsUpTo({Sym("a"), IntE("5")}, MaxArgs)} \cup {ABCD}

NextPos ==
    /\ mt.pc = "idle"
    /\ \E self \in PosPatterns, expression \in PosCandidates :
           CallMatch(self, expression, EmptyVars)

SpecPos == InitMatch /\ [][NextPos]_vars

\* w elements are within the get_match_count of the pattern
InCount(p, w) ==
    /\ GetMatchCount(p).min <= w
    /\ (GetMatchCount(p).max = NoLimit \/ w <= GetMatchCount(p).max)

\* the widths of the first slot with which both slots match
Admissible(p, q, elements) ==
    {w \in 0..Len(elements) :
        /\ InCount(p, w)
        /\ InCount(q, Len(elements) - w)
        /\ Succeeded(RunMatch(p, Wrap(SubSeq(elements, 1, w)), EmptyVars))
        /\ Succeeded(RunMatch(q, Wrap(SubSeq(elements, w + 1, Len(elements))),
                              EmptyVars))}

\* C14: when two variable-arity sub-patterns share an element list, the match
\* succeeds iff some split suits both, the first success gives the first
\* sub-pattern the fewest elements (from the minimum of its get_match_count)
\* with which the second still matches, and later successes give it more.
C14_LeftmostMinimalWidth ==
    (mt.pc = "done" /\ mt.self \in PosPatterns) =>
        LET p == mt.self.subs[1].subs[1]
            q == mt.self.subs[2].subs[1]
            elements == mt.expression.elems
            W == Admissible(p, q, elements)
            out == mt.st.out
        IN /\ Succeeded(mt.st) <=> W # {}
           /\ Len(out) = Cardinality(W)
           /\ W # {} =>
                  /\ Least(W) >= GetMatchCount(p).min
                  /\ out[1].vars["x"] = Wrap(SubSeq(elements, 1, Least(W)))
                  /\ out[1].vars["y"] =
                         Wrap(SubSeq(elements, Least(W) + 1, Len(elements)))
           /\ \A i \in 1..Len(out) - 1 :
                  Len(GetSequence(out[i].vars["x"]))
                      < Len(GetSequence(out[i + 1].vars["x"]))

\* f[a, b, c, d] against f[x__, y__]: x is a, y is b, c, d; two more follow
C14_Witness ==
    /\ mt.pc = "done"
    /\ mt.self = PExpression(Sym("f"), <<PPattern("x", PBlankSequence(NoneE)),
                                         PPattern("y", PBlankSequence(NoneE))>>)
    /\ mt.expression = ABCD
    /\ Len(mt.st.out) = 3
    /\ mt.st.out[1].vars["x"] = Sym("a")
    /\ mt.st.out[1].vars["y"] = SeqE(<<Sym("b"), Sym("c"), Sym("d")>>)

(***************************************************************************)
(* Compiling a pattern expression: what init leaves behind.  events lists  *)
(* what init did, in order, before it returned or raised.                  *)
(***************************************************************************)
InitResult(exc, tag, events, varname, min, max) ==
    [exc |-> exc, tag |-> tag, events |-> events, varname |-> varname,
     min |-> min, max |-> max]

\* self.error(tag, ...): raise PatternError
InitError(tag, events) == InitResult("PatternError", tag, events, "", 1, NoLimit)

\* Pattern.init
PatternInit(expr) ==
    IF PatvarError(expr) THEN InitError("patvar", <<>>)
    ELSE IF CompileError(expr.elems[2]) # "none"
    THEN InitError(CompileError(expr.elems[2]),
                   <<"super.init", "self.varname", "create">>)
    ELSE InitResult("none", "", <<"super.init", "self.varname", "create", "self.pattern">>,
                    expr.elems[1].name, 1, 1)

\* Repeated.init(expr, min_idx)
RepeatedInit(expr, min_idx) ==
    IF CompileError(expr.elems[1]) # "none"
    THEN InitError(CompileError(expr.elems[1]), <<"create">>)
    ELSE IF Len(expr.elems) # 2
    THEN InitResult("none", "", <<"create", "self.pattern">>, "", min_idx, NoLimit)
    ELSE LET element_1 == expr.elems[2]
             allnumbers == \A i \in 1..Len(element_1.elems) :
                               HasIntValue(element_1.elems[i])
         IN IF element_1.head = "List" /\ Len(element_1.elems) \in {1, 2} /\ allnumbers
            THEN InitResult("none", "", <<"create", "self.pattern">>, "",
                            GetIntValue(element_1.elems[1]).value,
                            GetIntValue(element_1.elems[Len(element_1.elems)]).value)
            ELSE IF RangeOK(element_1)
            THEN InitResult("none", "", <<"create", "self.pattern">>, "", min_idx,
                            GetIntValue(element_1).value)
            ELSE InitError("range", <<"create", "self.pattern">>)

\* BasePattern.create(expr): the init of the class of the head
Create(expr) ==
    IF expr.head = "Pattern" THEN PatternInit(expr)
    ELSE IF expr.head = "Repeated" THEN RepeatedInit(expr, 1)
    ELSE IF expr.head = "RepeatedNull" THEN RepeatedInit(expr, 0)
    ELSE IF CompileError(expr) # "none" THEN InitError(CompileError(expr), <<"create">>)
    ELSE InitResult("none", "", <<"create">>, "", 1, 1)

BlankE == Ex("Blank", <<>>)

\* what stands in the place of the range specification
RangeSpecs ==
    {IntOf(n) : n \in -2..MaxCap}
        \cup {ListE(<<IntOf(n)>>) : n \in -1..MaxCap}
        \cup {ListE(<<IntOf(m), IntOf(n)>>) : m \in -1..MaxCap, n \in -1..MaxCap}
        \cup {ListE(<<>>), ListE(<<IntOf(1), IntOf(2), IntOf(3)>>), Sym("a"),
              ListE(<<Sym("a")>>), ListE(<<IntOf(1), Sym("a")>>)}

RepeatedExprs ==
    {Ex(h, <<p>>) : h \in {"Repeated", "RepeatedNull"}, p \in {Sym("a"), BlankE}}
        \cup {Ex(h, <<p, r>>) : h \in {"Repeated", "RepeatedNull"},
                                p \in {Sym("a"), BlankE}, r \in RangeSpecs}

BadPatternExprs ==
    {Ex("Pattern", <<>>), Ex("Pattern", <<Sym("x")>>),
     Ex("Pattern", <<Sym("x"), BlankE, BlankE>>),
     Ex("Pattern", <<IntE("5"), BlankE>>),
     Ex("Pattern", <<Ex("f", <<Sym("a")>>), BlankE>>),
     Ex("Pattern", <<Sym(""), BlankE>>),
     Ex("Pattern", <<IntE("5"), Ex("Pattern", <<Sym("x"), BlankE>>)>>)}

PatternExprs ==
    BadPatternExprs
        \cup {Ex("Pattern", <<Sym("x"), BlankE>>),
              Ex("Pattern", <<Sym("x"), Ex("Pattern", <<IntE("5"), BlankE>>)>>),
              Ex("Pattern", <<Sym("y"), Ex("Repeated", <<BlankE, IntOf(0)>>)>>),
              Ex("f", <<Ex("Pattern", <<Sym("x")>>)>>), Ex("f", <<Sym("a")>>)}

CompileInputs == RepeatedExprs \cup PatternExprs

CallCompile(expr) ==
    /\ cp.pc = "idle"
    /\ cp' = [pc |-> "done", expr |-> expr, res |-> Create(expr)]
    /\ UNCHANGED <<cr, rr, rl, mt, rp>>

NextCP ==
    /\ cp.pc = "idle"
    /\ \E expr \in CompileInputs : CallCompile(expr)

SpecCP == InitRP /\ [][NextCP]_vars

\* a non-negative integer
IsNonNegInt(e) == HasIntValue(e) /\ GetIntValue(e).value >= 0

\* a non-negative integer, or a list of one or two of them
ValidRange(r) ==
    \/ IsNonNegInt(r)
    \/ /\ r.head = "List"
       /\ Len(r.elems) \in {1, 2}
       /\ \A i \in 1..Len(r.elems) : IsNonNegInt(r.elems[i])

\* C15: compiling Repeated[p, r] raises the range error exactly when r is
\* not a non-negative integer or a list of one or two non-negative integers;
\* an integer n, 0 included, gives max = n with the default minimum, a list
\* gives its first and last member as min and max.
C15_RangeErrorExactly ==
    (/\ cp.pc = "done"
     /\ cp.expr.head \in {"Repeated", "RepeatedNull"}
     /\ Len(cp.expr.elems) = 2) =>
        LET r == cp.expr.elems[2]
            min_idx == IF cp.expr.head = "Repeated" THEN 1 ELSE 0
        IN /\ cp.res.exc = "none" <=> ValidRange(r)
           /\ cp.res.exc # "none" => (cp.res.exc = "PatternError" /\ cp.res.tag = "range")
           /\ (ValidRange(r) /\ r.head = "Integer") =>
                  (cp.res.min = min_idx /\ cp.res.max = GetIntValue(r).value)
           /\ (ValidRange(r) /\ r.head = "List") =>
                  /\ cp.res.min = GetIntValue(r.elems[1]).value
                  /\ cp.res.max = GetIntValue(r.elems[Len(r.elems)]).value

(***************************************************************************)
(* The Replace family called with rules whose left-hand side does not      *)
(* compile.                                                                *)
(***************************************************************************)
PVExprs == {Sym("a"), Ex("f", <<Sym("a")>>)}

PVLhs ==
    BadPatternExprs
        \cup {Ex("f", <<Ex("Pattern", <<Sym("x")>>)>>),
              Ex("Pattern", <<Sym("x"), Ex("Pattern", <<IntE("5"), BlankE>>)>>),
              Ex("Repeated", <<Sym("a"), IntOf(0)>>), Sym("a")}

PVRuleArgs ==
    {Ex("Rule", <<l, Sym("b")>>) : l \in PVLhs}
        \cup {ListE(<<Ex("Rule", <<Sym("a"), Sym("b")>>), Ex("Rule", <<l, Sym("c")>>)>>) :
                  l \in PVLhs}
        \cup {ListE(<<IntE("5"), Ex("Rule", <<Ex("Pattern", <<>>), Sym("c")>>)>>)}

AllIdle ==
    /\ cr.pc = "idle" /\ rr.pc = "idle" /\ rl.pc = "idle"
    /\ rp.pc = "idle" /\ cp.pc = "idle"

\* ReplaceRepeated[expr, rules, MaxIterations -> option] is entered
CallReplaceRepeated(expr, rules_expr, option, defs) ==
    /\ rr.pc = "idle"
    /\ rr' = RRStart(expr, rules_expr, option, defs)
    /\ UNCHANGED <<cr, rl, mt, rp, cp>>

NextPV ==
    \/ /\ AllIdle
       /\ \/ \E expr \in PatternExprs : CallCompile(expr)
          \/ \E expr \in PVExprs, rules_expr \in PVRuleArgs :
                 \/ CallReplaceAll(expr, rules_expr)
                 \/ \E ls \in {DefaultLevelspec, Sym("All")} :
                        CallReplace(expr, rules_expr, ls, FALSE)
                 \/ \E maxidx \in {SymbolInfinity, IntOf(1)} :
                        CallReplaceList(expr, rules_expr, maxidx)
                 \/ \E option \in MaxIterationsOptions :
                        CallReplaceRepeated(expr, rules_expr, option, NoDefinitions)
    \/ NextRR

SpecPV == InitRP /\ [][NextPV]_vars

\* the first element is a symbol with a non-empty name
IsNamedSymbol(e) == e.head = "Symbol" /\ e.name # ""

\* not exactly 2 elements, or the first is no symbol with a non-empty name
NotNamed(expr) == Len(expr.elems) # 2 \/ ~IsNamedSymbol(expr.elems[1])

RECURSIVE ContainsBadPattern(_)
\* some Pattern[...] compiled within e is malformed
ContainsBadPattern(e) ==
    \/ e.head = "Pattern" /\ NotNamed(e)
    \/ /\ e.head # "Verbatim"
       /\ \E i \in 1..Len(e.elems) : ContainsBadPattern(e.elems[i])

\* every element is a rule of two elements, and one left-hand side holds a
\* malformed Pattern
BadPatternRules(rules_expr) ==
    LET els == RuleElements(rules_expr) IN
    /\ \A i \in 1..Len(els) : ~BadRuleElement(els[i])
    /\ \E i \in 1..Len(els) : ContainsBadPattern(els[i].elems[1])

\* the driver emitted the diagnostic and returned no rewritten expression
Diagnosed(res) ==
    /\ res.outcome = "return"
    /\ res.value = NoneE
    /\ ~res.applied
    /\ res.msgs = <<Msg("Replace", "reps")>>

\* C16: compiling Pattern[...] that has not exactly 2 elements, or whose
\* first element is no symbol with a non-empty name, raises the patvar
\* pattern error before any inner pattern is compiled and before any field
\* of the object is set; a Replace-family call given such a rule emits a
\* diagnostic and returns no rewritten expression.
C16_PatvarBeforeAnything ==
    /\ (cp.pc = "done" /\ cp.expr.head = "Pattern" /\ NotNamed(cp.expr)) =>
           /\ cp.res.exc = "PatternError"
           /\ cp.res.tag = "patvar"
           /\ cp.res.events = <<>>
    /\ (cp.pc = "done" /\ cp.expr.head = "Pattern" /\ ~NotNamed(cp.expr)) =>
           /\ Len(cp.res.events) >= 3
           /\ cp.res.exc = "none" => cp.res.varname = cp.expr.elems[1].name
    /\ (cr.pc = "done" /\ BadPatternRules(cr.rules_expr)) => Diagnosed(cr.res)
    /\ (rp.pc = "done" /\ BadPatternRules(rp.rules_expr)) => Diagnosed(rp.res)
    /\ (rl.pc = "done" /\ BadPatternRules(rl.rules_expr)) => Diagnosed(rl.res)
    /\ (rr.pc \notin {"idle", "call"} /\ BadPatternRules(rr.rules_expr)) =>
           /\ rr.pc = "returned"
           /\ rr.result = NoneE
           /\ rr.passes = 0
           /\ rr.msgs = <<Msg("Replace", "reps")>>

\* ReplaceAll was given a rule whose left-hand side is Pattern[5, _]: the
\* compilation raised patvar and the call returned None with the diagnostic
C16_Witness ==
    /\ cr.pc = "done"
    /\ cr.rules_expr = Ex("Rule", <<Ex("Pattern", <<IntE("5"), BlankE>>), Sym("b")>>)
    /\ cr.out = CRRaise("PatternError")
    /\ CompileError(cr.rules_expr.elems[1]) = "patvar"
    /\ Diagnosed(cr.res)

(***************************************************************************)
(* Optional slots: f, g and h applied to patterns with an optional last    *)
(* element, with and without an inline default.                            *)
(***************************************************************************)
OptInner ==
    {PPattern("x", PBlank(NoneE)), PBlank(NoneE), PBlank(Sym("Integer")),
     PAtom(Sym("b"))}

OptDefaults == {NoneE, IntE("3"), Sym("b")}

OptSlots == {POptional(p, d) : p \in OptInner, d \in OptDefaults}

OptHeads == {"f", "g", "h"}

OptPatterns ==
    OptSlots
        \cup {PExpression(Sym(h), <<o>>) : h \in OptHeads, o \in OptSlots}
        \cup {PExpression(Sym(h), <<PPattern("y", PBlank(NoneE)), o>>) :
                  h \in OptHeads, o \in OptSlots}
        \cup {PAlternatives(<<PExpression(Sym(h), <<o>>), PExpression(Sym(h), <<>>)>>) :
                  h \in OptHeads, o \in OptSlots}

OptCandidates ==
    {SeqE(<<>>), Sym("a"), IntE("5")}
        \cup {Ex(h, es) : h \in OptHeads,
                          es \in {<<>>, <<Sym("a")>>, <<Sym("a"), IntE("5")>>,
                                  <<Sym("a"), Sym("b")>>}}

NextOpt ==
    /\ mt.pc = "idle"
    /\ \E self \in OptPatterns, expression \in OptCandidates, vars0 \in InitialVars :
           CallMatch(self, expression, vars0)

SpecOpt == InitMatch /\ [][NextOpt]_vars

\* the declared default of name that is most specific for slot k of n
DeclaredDefault(name, k, n) ==
    LET at(pos) == {d \in DefaultValues : d.name = name /\ d.pos = pos}
        best == IF at(<<k, n>>) # {} THEN at(<<k, n>>)
                ELSE IF at(<<k>>) # {} THEN at(<<k>>)
                ELSE at(<<>>)
    IN IF best = {} THEN NoneE ELSE (CHOOSE d \in best : TRUE).value

\* the match failed quietly: no success, no exception, the nodef diagnostic
FailedWithNodef(st) ==
    /\ st.out = <<>>
    /\ st.exc = "none"
    /\ st.msgs = <<Msg("Pattern", "nodef")>>

\* the pattern is head[p1, ..., Optional[...]] and the candidate has one
\* element less than the pattern, so that the last slot is empty
EmptyLastSlot ==
    /\ mt.pc = "done"
    /\ mt.self.tag = "Expression"
    /\ mt.self.subs # <<>>
    /\ mt.self.subs[Len(mt.self.subs)].tag = "Optional"
    /\ mt.expression.head = mt.self.head.name
    /\ Len(mt.expression.elems) = Len(mt.self.subs) - 1

\* C17: an Optional slot given the empty sequence matches its inner
\* pattern against the inline default if there is one, otherwise against
\* the default declared for the enclosing head and position; when there is
\* neither (no inline default, and no enclosing head or no declared
\* default) the continuation is not invoked, nodef is emitted and nothing
\* is raised, so that a later alternative is still tried.
C17_OptionalDefault ==
    /\ (mt.pc = "done" /\ mt.self.tag = "Optional" /\ mt.expression = SeqE(<<>>)) =>
           IF mt.self.content = NoneE THEN FailedWithNodef(mt.st)
           ELSE /\ mt.st.msgs = <<>>
                /\ YieldedVars(mt.st) =
                       YieldedVars(RunMatch(mt.self.subs[1], mt.self.content, mt.vars0))
    /\ EmptyLastSlot =>
           LET n == Len(mt.self.subs)
               slot == mt.self.subs[n]
               default == IF slot.content # NoneE THEN slot.content
                          ELSE DeclaredDefault(mt.self.head.name, n, n)
               filled == PExpression(mt.self.head,
                             SubSeq(mt.self.subs, 1, n - 1) \o <<slot.subs[1]>>)
               given == Ex(mt.expression.head, mt.expression.elems \o <<default>>)
           IN IF default = NoneE THEN FailedWithNodef(mt.st)
              ELSE /\ mt.st.msgs = <<>>
                   /\ mt.st.exc = "none"
                   /\ YieldedVars(mt.st) = YieldedVars(RunMatch(filled, given, mt.vars0))
    /\ (/\ mt.pc = "done" /\ mt.self.tag = "Alternatives"
        /\ mt.expression.elems = <<>>
        /\ mt.expression.head = mt.self.subs[1].head.name) =>
           /\ mt.st.exc = "none"
           /\ Succeeded(mt.st)
           /\ (/\ mt.self.subs[1].subs[1].content = NoneE
               /\ DeclaredDefault(mt.expression.head, 1, 1) = NoneE) =>
                  /\ mt.st.msgs = <<Msg("Pattern", "nodef")>>
                  /\ Len(mt.st.out) = 1

\* h[y_, x_.] met h[a]: h declares no default, nodef was emitted and the
\* continuation was not invoked
C17_Witness ==
    /\ EmptyLastSlot
    /\ mt.self = PExpression(Sym("h"), <<PPattern("y", PBlank(NoneE)),
                      POptional(PPattern("x", PBlank(NoneE)), NoneE)>>)
    /\ mt.expression = Ex("h", <<Sym("a")>>)
    /\ FailedWithNodef(mt.st)

(***************************************************************************)
(* OptionsPattern met with runs of options and of other elements, alone    *)
(* and as the only element of f[...] and g[...].                           *)
(***************************************************************************)
OptionElements ==
    {Ex("Rule", <<Sym("n"), IntE("1")>>), Ex("Rule", <<Sym("n"), IntE("3")>>),
     Ex("RuleDelayed", <<Sym("m"), Sym("a")>>),
     ListE(<<Ex("Rule", <<Sym("n"), IntE("1")>>), Ex("Rule", <<Sym("m"), Sym("b")>>)>>),
     ListE(<<>>), IntE("5"), Sym("a")}

OptionRuns == SeqsUpTo(OptionElements, MaxRun)

OPPatterns ==
    OptionsPatterns
        \cup {PExpression(Sym(h), <<o>>) : h \in {"f", "g"}, o \in OptionsPatterns}

OPCandidates ==
    {Wrap(run) : run \in OptionRuns}
        \cup {Ex(h, run) : h \in {"f", "g"}, run \in OptionRuns}

NextOP ==
    /\ mt.pc = "idle"
    /\ \E self \in OPPatterns, expression \in OPCandidates, vars0 \in InitialVars :
           CallMatch(self, expression, vars0)

SpecOP == InitMatch /\ [][NextOP]_vars

RECURSIVE IsOption(_)
\* a rule that sets an option, or a list of such
IsOption(e) ==
    \/ /\ e.head \in {"Rule", "RuleDelayed"}
       /\ Len(e.elems) = 2
       /\ e.elems[1].head = "Symbol"
    \/ e.head = "List" /\ \A i \in 1..Len(e.elems) : IsOption(e.elems[i])

RECURSIVE FlatRules(_)
\* the rules of a run, lists opened, in order
FlatRules(run) ==
    IF run = <<>> THEN <<>>
    ELSE IF Head(run).head = "List"
    THEN FlatRules(Head(run).elems) \o FlatRules(Tail(run))
    ELSE <<Head(run)>> \o FlatRules(Tail(run))

\* the value of option o after the run: the last rule that sets it, or
\* the default
Merged(run, defaults, o) ==
    LET rules == FlatRules(run)
        setters == {i \in 1..Len(rules) : rules[i].elems[1].name = o}
    IN IF setters = {} THEN defaults[o]
       ELSE rules[CHOOSE i \in setters : \A j \in setters : j <= i].elems[2]

\* the defaults of OptionsPattern[d] under the enclosing head
DefaultsOf(d, head) ==
    IF d = NoneE
    THEN (IF head = "f" THEN [NoOptions EXCEPT !["n"] = IntE("2")] ELSE NoOptions)
    ELSE IF d = Sym("f") THEN [NoOptions EXCEPT !["n"] = IntE("2")]
    ELSE IF d = ListE(<<Ex("Rule", <<Sym("m"), IntE("5")>>)>>)
    THEN [NoOptions EXCEPT !["m"] = IntE("5")]
    ELSE NoOptions

\* the continuation was invoked once, with the caller's bindings and one
\* _option_ key per option
YieldsMerged(run, defaults) ==
    /\ Len(mt.st.out) = 1
    /\ mt.st.heap[1] = mt.vars0
    /\ \A name \in Names \ {"_option_" \o o : o \in OptNames} :
           mt.st.out[1].vars[name] = mt.vars0[name]
    /\ \A o \in OptNames :
           mt.st.out[1].vars["_option_" \o o] = Merged(run, defaults, o)

\* OptionsPattern was handed a run: by itself, or as f[OptionsPattern[...]]
OPCase ==
    /\ mt.pc = "done"
    /\ \/ mt.self.tag = "OptionsPattern"
       \/ /\ mt.self.tag = "Expression"
          /\ mt.expression.head = mt.self.head.name

OPRun ==
    IF mt.self.tag = "OptionsPattern" THEN GetSequence(mt.expression)
    ELSE mt.expression.elems

OPDefaults ==
    IF mt.self.tag = "OptionsPattern" THEN DefaultsOf(mt.self.content, "")
    ELSE DefaultsOf(mt.self.subs[1].content, mt.self.head.name)

PTInner ==
    {PBlank(NoneE), PPattern("x", PBlank(NoneE)), PBlankSequence(NoneE),
     PBlankNullSequence(NoneE),
     PAlternatives(<<PBlankNullSequence(NoneE), PBlankSequence(NoneE)>>)}

PTTests == {"IntegerQ", "p", "q", "AtomQ", "NotNegativePowerQ", "NegativePowerQ"}

PTPatterns == {PPatternTest(inner, Sym(t)) : inner \in PTInner, t \in PTTests}

PTElements == {Sym("a"), Sym("b"), IntE("5"), Ex("f", <<Sym("a")>>)}

PTCandidates == {Wrap(run) : run \in SeqsUpTo(PTElements, MaxRun)}

NextPT ==
    /\ mt.pc = "idle"
    /\ \E self \in PTPatterns, expression \in PTCandidates, vars0 \in InitialVars :
           CallMatch(self, expression, vars0)

SpecPT == InitMatch /\ [][NextPT]_vars

\* test(item) is True: the quick answer, or the value of test[item]
TestHolds(item, t) ==
    CASE t = "IntegerQ" -> item.head = "Integer"
      [] t = "AtomQ" -> item.head \in {"Symbol", "Integer"}
      [] t = "NotNegativePowerQ" -> item.head # "Power"
      [] t = "NegativePowerQ" -> item.head = "Power"
      [] t = "p" -> item = Sym("a")
      [] OTHER -> FALSE

\* the items up to the first on which the test does not hold, that one
\* included
UpToFirstFailing(items, t) ==
    LET failing == {i \in 1..Len(items) : ~TestHolds(items[i], t)}
    IN IF failing = {} THEN items
       ELSE SubSeq(items, 1, CHOOSE i \in failing : \A j \in failing : i <= j)

\* C19: PatternTest invokes the outer continuation for a success of its
\* inner pattern iff the test is True of every element of the candidate
\* sequence, taken in order; for each inner success the test is applied at
\* most once per element and not beyond the first failing element.
C19_TestGatesEverySuccess ==
    (mt.pc = "done" /\ mt.self.tag = "PatternTest") =>
        LET items == GetSequence(mt.expression)
            t == mt.self.test.name
            inner == RunMatch(mt.self.subs[1], mt.expression, mt.vars0)
            all == \A i \in 1..Len(items) : TestHolds(items[i], t)
        IN /\ mt.st.exc = "none"
           /\ YieldedVars(mt.st) = IF all THEN YieldedVars(inner) ELSE <<>>
           /\ Len(mt.st.tests) = Len(inner.out)
           /\ \A j \in 1..Len(mt.st.tests) :
                  mt.st.tests[j] = UpToFirstFailing(items, t)

\* (__ | __)?p met the run (a, b): two inner successes, each tested a,
\* then b, on which p fails, and the continuation was not invoked
C19_Witness ==
    /\ mt.pc = "done"
    /\ mt.self = PPatternTest(PAlternatives(<<PBlankNullSequence(NoneE),
                                              PBlankSequence(NoneE)>>), Sym("p"))
    /\ mt.expression = SeqE(<<Sym("a"), Sym("b")>>)
    /\ mt.st.tests = <<<<Sym("a"), Sym("b")>>, <<Sym("a"), Sym("b")>>>>
    /\ mt.st.out = <<>>

(***************************************************************************)
(* The abort request and the loop of ReplaceRepeated.                      *)
(***************************************************************************)
\* C20, as stated: once an abort has been requested, no further
\* rule-application pass runs and the call does not return a rewritten
\* expression.
C20_NoPassAfterRequest ==
    [][rr.stopped => (rr'.passes = rr.passes /\ rr'.pc # "returned")]_vars

\* C20, for a request that is pending when an iteration starts: the check
\* is the first step of every iteration, before the cap test and before the
\* pass; a request seen by the check ends the call in the aborted state
\* with no further pass, and nothing is returned from there; a request
\* that arrives after the check lets at most the pass of that iteration
\* run.
C20_AbortSeenAtIterationStart ==
    [][/\ (rr.pc = "loop" /\ rr.stopped) =>
              (rr'.pc = "aborted" /\ rr'.passes = rr.passes /\ rr'.result = rr.result)
       /\ rr'.pc = "aborted" => (rr.pc = "loop" /\ rr.stopped)
       /\ rr.pc # "aborted"
       /\ (rr'.pc = "cap" /\ rr.pc # "cap") => (rr.pc = "loop" /\ ~rr.stopped)
       /\ (rr'.pc = "pass" /\ rr.pc # "pass") => rr.pc = "cap"
       /\ rr'.passes # rr.passes =>
              /\ rr.pc = "pass"
              /\ rr'.passes = rr.passes + 1
              /\ rr'.pc \in {"loop", "after"}
       /\ (rr.stopped /\ rr.pc = "after") => rr'.pc \in {"returned", "raised"}]_vars

\* the call was aborted after at least one pass had run
C20_Witness ==
    /\ rr.pc = "aborted"
    /\ rr.stopped
    /\ rr.passes >= 1

(***************************************************************************)
(* Alternatives of up to MaxAlts sub-patterns, some of which succeed more  *)
(* than once.                                                              *)
(***************************************************************************)
AltInner ==
    {PPattern("x", PBlank(NoneE)), PPattern("y", PBlank(NoneE)),
     PBlank(Sym("Integer")), PVerbatim(Sym("a")),
     PAlternatives(<<PPattern("x", PBlank(NoneE)), PPattern("y", PBlank(Sym("Symbol")))>>)}

AltPatterns == {PAlternatives(alts) : alts \in SeqsUpTo(AltInner, MaxAlts)}

AltCandidates == {Sym("a"), Sym("b"), IntE("5"), Ex("f", <<Sym("a")>>), SeqE(<<>>)}

NextAlt ==
    /\ mt.pc = "idle"
    /\ \E self \in AltPatterns, expression \in AltCandidates, vars0 \in InitialVars :
           CallMatch(self, expression, vars0)

SpecAlt == InitMatch /\ [][NextAlt]_vars

RECURSIVE YieldsInOrder(_, _, _)
\* the successes of each alternative by itself, one alternative after the
\* other
YieldsInOrder(alternatives, expression, vars0) ==
    IF alternatives = <<>> THEN <<>>
    ELSE YieldedVars(RunMatch(Head(alternatives), expression, vars0))
             \o YieldsInOrder(Tail(alternatives), expression, vars0)

\* C21: Alternatives tries every sub-pattern, in list order, against the
\* same candidate and context: the continuation is invoked once for each
\* success of each alternative, an earlier success does not keep a later
\* alternative from being tried, and the successes come in alternative
\* order.
C21_AllAlternativesInOrder ==
    (mt.pc = "done" /\ mt.self.tag = "Alternatives") =>
        /\ mt.st.exc = "none"
        /\ YieldedVars(mt.st) = YieldsInOrder(mt.self.subs, mt.expression, mt.vars0)

\* a | x_ | (x_ | y_Symbol) met a: four successes, in order
C21_Witness ==
    /\ mt.pc = "done"
    /\ mt.self = PAlternatives(<<PVerbatim(Sym("a")), PPattern("x", PBlank(NoneE)),
                      PAlternatives(<<PPattern("x", PBlank(NoneE)),
                                      PPattern("y", PBlank(Sym("Symbol")))>>)>>)
    /\ mt.expression = Sym("a")
    /\ mt.vars0 = EmptyVars
    /\ Len(mt.st.out) = 4
    /\ mt.st.out[1].vars = EmptyVars
    /\ mt.st.out[2].vars["x"] = Sym("a")
    /\ mt.st.out[4].vars["y"] = Sym("a")

(***************************************************************************)
(* Condition: guards that are decided, undecided or no boolean, over inner *)
(* patterns with one or several successes.                                 *)
(***************************************************************************)
CondInner ==
    {PPattern("x", PBlank(NoneE)), PBlank(NoneE), PPattern("x", PBlank(Sym("Integer"))),
     PAlternatives(<<PPattern("x", PBlank(NoneE)), PPattern("y", PBlank(NoneE))>>),
     PPattern("y", PBlankSequence(NoneE))}

CondTests ==
    {Ex("SameQ", <<Sym("x"), Sym("a")>>), Ex("SameQ", <<Sym("y"), Sym("a")>>),
     SymbolTrue, SymbolFalse, Ex("g", <<Sym("x")>>), IntE("5"),
     Ex("p", <<Sym("x")>>), Sym("x")}

CondPatterns == {PCondition(inner, test) : inner \in CondInner, test \in CondTests}

CondCandidates ==
    {Sym("a"), Sym("b"), IntE("5"), SymbolTrue, Ex("f", <<Sym("a")>>), SeqE(<<>>),
     SeqE(<<Sym("a"), Sym("b")>>)}

NextCond ==
    /\ mt.pc = "idle"
    /\ \E self \in CondPatterns, expression \in CondCandidates, vars0 \in InitialVars :
           CallMatch(self, expression, vars0)

SpecCond == InitMatch /\ [][NextCond]_vars

RECURSIVE TrueGuards(_, _)
\* the environments under which the guard evaluates to True, in order
TrueGuards(yielded, test) ==
    IF yielded = <<>> THEN <<>>
    ELSE (IF EvaluateTest(ReplaceVars(test, Head(yielded))) = SymbolTrue
          THEN <<Head(yielded)>> ELSE <<>>) \o TrueGuards(Tail(yielded), test)

\* C22: Condition forwards a success of its inner pattern iff the guard,
\* with the bindings of that success substituted and then evaluated, is
\* exactly True: the guard is evaluated once per inner success with that
\* success's bindings, the outer continuation receives those bindings
\* unchanged, and any other guard result forwards nothing.
C22_GuardForwardsOnTrue ==
    (mt.pc = "done" /\ mt.self.tag = "Condition") =>
        LET inner == YieldedVars(RunMatch(mt.self.subs[1], mt.expression, mt.vars0))
        IN /\ mt.st.exc = "none"
           /\ mt.st.guards = [i \in 1..Len(inner) |-> ReplaceVars(mt.self.test, inner[i])]
           /\ YieldedVars(mt.st) = TrueGuards(inner, mt.self.test)

\* (x_ | y_) /; x === a met a: two inner successes, the guard evaluated for
\* each, True under the first only
C22_Witness ==
    /\ mt.pc = "done"
    /\ mt.self = PCondition(PAlternatives(<<PPattern("x", PBlank(NoneE)),
                                            PPattern("y", PBlank(NoneE))>>),
                            Ex("SameQ", <<Sym("x"), Sym("a")>>))
    /\ mt.expression = Sym("a")
    /\ mt.vars0 = EmptyVars
    /\ mt.st.guards = <<Ex("SameQ", <<Sym("a"), Sym("a")>>),
                        Ex("SameQ", <<Sym("x"), Sym("a")>>)>>
    /\ Len(mt.st.out) = 1
    /\ mt.st.out[1].vars["x"] = Sym("a")

(***************************************************************************)
(* get_match_count of Alternatives over sub-patterns of different arities. *)
(***************************************************************************)
CountInner ==
    {PBlank(NoneE), PBlankSequence(NoneE), PBlankNullSequence(NoneE),
     POptional(PBlank(NoneE), NoneE), PRepeated(PBlank(NoneE), 2, 3),
     PPattern("x", PBlankSequence(NoneE))}

CountPatterns == {PAlternatives(alts) : alts \in SeqsUpTo(CountInner, MaxAlts)}

\* self.get_match_count()
CallGetMatchCount(self) ==
    /\ mt.pc = "idle"
    /\ mt' = [pc |-> "counted", self |-> self, count |-> GetMatchCount(self)]
    /\ UNCHANGED <<cr, rr, rl, rp, cp>>

NextCount ==
    /\ mt.pc = "idle"
    /\ \E self \in CountPatterns : CallGetMatchCount(self)

SpecCount == InitMatch /\ [][NextCount]_vars

\* the arities of the alternatives, each taken by itself
SubCounts == [i \in 1..Len(mt.self.subs) |-> GetMatchCount(mt.self.subs[i])]

\* C23: for every list of one or more alternatives,
\* Alternatives.get_match_count returns (minimum of the minimums, maximum
\* of the maximums), the maximum unbounded when that of any alternative
\* is, also for alternatives of different arities.
C23_MinMaxMerge ==
    (mt.pc = "counted" /\ mt.self.tag = "Alternatives" /\ mt.self.subs # <<>>) =>
        LET I == 1..Len(mt.self.subs) IN
        /\ mt.count.exc = "none"
        /\ \E i \in I : mt.count.min = SubCounts[i].min
        /\ \A i \in I : mt.count.min <= SubCounts[i].min
        /\ IF \E i \in I : SubCounts[i].max = NoLimit
           THEN mt.count.max = NoLimit
           ELSE /\ \E i \in I : mt.count.max = SubCounts[i].max
                /\ \A i \in I : mt.count.max >= SubCounts[i].max

(***************************************************************************)
(* Repeated and RepeatedNull over runs of up to MaxRun + 1 elements, alone *)
(* and as the only element of a list pattern.                              *)
(***************************************************************************)
RepInner ==
    {PPattern("x", PAlternatives(<<PAtom(Sym("a")), PAtom(Sym("b"))>>)),
     PPattern("x", PBlank(NoneE)), PBlank(Sym("Symbol")),
     PAlternatives(<<PPattern("x", PBlank(NoneE)), PPattern("y", PBlank(NoneE))>>)}

RepRanges ==
    {<<1, NoLimit>>, <<0, NoLimit>>, <<1, 3>>, <<1, 1>>, <<0, 2>>, <<2, 3>>, <<1, -1>>}

RepPatterns ==
    {PRepeated(p, m[1], m[2]) : p \in RepInner, m \in RepRanges}
        \cup {PExpression(Sym("List"), <<PRepeated(p, m[1], m[2])>>) :
                  p \in RepInner, m \in RepRanges}

RepRuns == SeqsUpTo({Sym("a"), Sym("b"), IntE("5")}, MaxRun + 1)

RepCandidates == {Wrap(run) : run \in RepRuns} \cup {ListE(run) : run \in RepRuns}

NextRep ==
    /\ mt.pc = "idle"
    /\ \E self \in RepPatterns, expression \in RepCandidates,
          vars0 \in {EmptyVars, [EmptyVars EXCEPT !["x"] = Sym("a")]} :
           CallMatch(self, expression, vars0)

SpecRep == InitMatch /\ [][NextRep]_vars

\* the members of a sequence
Members(seq) == {seq[i] : i \in 1..Len(seq)}

RECURSIVE ChainEnvs(_, _, _)
\* the environments left after matching the elements one by one, left to
\* right, each under an environment left by the element before it
ChainEnvs(inner, elements, envs) ==
    IF elements = <<>> THEN envs
    ELSE ChainEnvs(inner, Tail(elements),
             UNION {Members(YieldedVars(RunMatch(inner, Head(elements), e))) :
                        e \in envs})

\* Repeated was handed a run: by itself, or as the only element of a list
RepCase ==
    /\ mt.pc = "done"
    /\ \/ mt.self.tag = "Repeated"
       \/ mt.self.tag = "Expression" /\ mt.expression.head = "List"

RepSelf == IF mt.self.tag = "Repeated" THEN mt.self ELSE mt.self.subs[1]

RepRun ==
    IF mt.self.tag = "Repeated" THEN GetSequence(mt.expression) ELSE mt.expression.elems

\* C24: Repeated(inner, min, max) succeeds on a run iff the length of the
\* run is within [min, max] (no upper limit when max is absent) and every
\* element, taken left to right, matches inner under the bindings
\* accumulated from the elements before it, so that a named variable binds
\* the same value at every occurrence; with min = 0 (RepeatedNull) the
\* empty run succeeds once, with the bindings it was given.
C24_RepeatedRun ==
    RepCase =>
        LET n == Len(RepRun)
            within == RepSelf.min <= n /\ (RepSelf.max = NoLimit \/ n <= RepSelf.max)
        IN /\ mt.st.exc = "none"
           /\ Members(YieldedVars(mt.st)) =
                  IF within THEN ChainEnvs(RepSelf.subs[1], RepRun, {mt.vars0}) ELSE {}
           /\ (n = 0 /\ RepSelf.min = 0) => YieldedVars(mt.st) = <<mt.vars0>>

\* {Repeated[x : a | b, 3]} met {a, a, a} and matched with x bound to a
C24_Witness ==
    /\ RepCase
    /\ mt.self = PExpression(Sym("List"),
                      <<PRepeated(PPattern("x", PAlternatives(<<PAtom(Sym("a")),
                                                                PAtom(Sym("b"))>>)),
                                  1, 3)>>)
    /\ mt.expression = ListE(<<Sym("a"), Sym("a"), Sym("a")>>)
    /\ mt.vars0 = EmptyVars
    /\ Len(mt.st.out) = 1
    /\ mt.st.out[1].vars["x"] = Sym("a")

(***************************************************************************)
(* One OptionsPattern instance matched several times, under different      *)
(* enclosing heads: self.defaults is a field of the instance.              *)
(***************************************************************************)
OPGiven == {NoneE, Sym("g"), ListE(<<Ex("Rule", <<Sym("m"), IntE("5")>>)>>)}

OPHeads == {NoneE, Sym("f"), Sym("g")}

OPInstanceRuns == {<<>>, <<Ex("Rule", <<Sym("m"), Sym("a")>>)>>, <<IntE("5")>>}

\* the instance as OptionsPattern.init leaves it
InitOPI ==
    /\ cr = CRIdle /\ rr = RRIdle /\ rl = RLIdle /\ rp = RPIdle /\ cp = CPIdle
    /\ \E given \in OPGiven :
           mt = [pc |-> "instance", given |-> given, self |-> POptionsPattern(given),
                 matches |-> 0, first |-> NoneE, head |-> NoneE, run |-> <<>>,
                 st |-> MachineInit(EmptyVars)]

\* self.match(expression, {"head": head, ...}) on the instance
OPInstanceMatch(head, run) ==
    /\ mt.pc = "instance"
    /\ mt.matches < MaxMatches
    /\ LET resolved == OptionsPatternResolve(mt.self, head) IN
       mt' = [mt EXCEPT !.self = resolved,
                        !.matches = mt.matches + 1,
                        !.first = IF mt.matches = 0 THEN head ELSE mt.first,
                        !.head = head,
                        !.run = run,
                        !.st = OptionsPatternMatch(resolved, Wrap(run),
                                   [Context(1, <<KCollect>>) EXCEPT !.head = head],
                                   MachineInit(EmptyVars))]
    /\ UNCHANGED <<cr, rr, rl, rp, cp>>

NextOPI == \E head \in OPHeads, run \in OPInstanceRuns : OPInstanceMatch(head, run)

SpecOPI == InitOPI /\ [][NextOPI]_vars

\* the source an argument-less instance takes from the head of a match
SourceFrom(head) == IF head = NoneE THEN ListE(<<>>) ELSE head

\* C25: an argument-less OptionsPattern instance resolves its default
\* source lazily and once: it is unset before the first match, the first
\* match fixes it to the enclosing head of that match (the empty list
\* when there is none), and every later match, whatever its enclosing
\* head, uses the source fixed by the first.
C25_DefaultsResolvedOnce ==
    mt.pc = "instance" =>
        /\ mt.matches = 0 => mt.self.content = mt.given
        /\ mt.given # NoneE => mt.self.content = mt.given
        /\ (mt.given = NoneE /\ mt.matches >= 1) =>
               /\ mt.self.content = SourceFrom(mt.first)
               /\ mt.run = <<>> =>
                      /\ Len(mt.st.out) = 1
                      /\ \A o \in OptNames :
                             mt.st.out[1].vars["_option_" \o o] =
                                 DefaultsOf(NoneE, SourceFrom(mt.first).name)[o]

\* first matched under f, then under g: the source is still f and option
\* n has f's declared default
C25_Witness ==
    /\ mt.pc = "instance"
    /\ mt.given = NoneE
    /\ mt.matches >= 2
    /\ mt.first = Sym("f")
    /\ mt.head = Sym("g")
    /\ mt.run = <<>>
    /\ mt.self.content = Sym("f")
    /\ mt.st.out[1].vars["_option_n"] = IntE("2")

(***************************************************************************)
(* DispatchAtom.eval_create and eval_normal.                               *)
(***************************************************************************)
DispatchResult(kind, value, msgs) == [kind |-> kind, value |-> value, msgs |-> msgs]

\* return Dispatch(flatten_list, evaluation), or None on any exception:
\* __init__ takes elements[0] and elements[1] of every member and compiles
\* the first as a pattern
DispatchTry(flatten_list) ==
    IF /\ DispatchInitOK(flatten_list)
       /\ \A i \in 1..Len(flatten_list) :
              CompileError(flatten_list[i].elems[1]) = "none"
    THEN DispatchResult("dispatch", DispatchInit(flatten_list), <<>>)
    ELSE DispatchResult("none", NoneE, <<>>)

RECURSIVE FlattenLoop(_, _)
\* eval_create: for rule in rules
FlattenLoop(rules, flatten_list) ==
    IF rules = <<>> THEN DispatchTry(flatten_list)
    ELSE LET rule == Head(rules) IN
         IF HasForm(rule, "List")
         THEN FlattenLoop(Tail(rules), flatten_list \o rule.elems)
         ELSE IF (HasForm(rule, "Rule") \/ HasForm(rule, "RuleDelayed"))
                 /\ Len(rule.elems) = 2
         THEN FlattenLoop(Tail(rules), Append(flatten_list, rule))
         ELSE IF IsDispatch(rule)
         THEN FlattenLoop(Tail(rules), flatten_list \o DispatchSrc(rule).elems)
         ELSE DispatchResult("none", NoneE, <<Msg("Dispatch", "invrpl")>>)

RECURSIVE EvalCreate(_)
\* DispatchAtom.eval_create
EvalCreate(rules) ==
    IF IsDispatch(rules) THEN DispatchResult("dispatch", rules, <<>>)
    ELSE LET rs == IF HasForm(rules, "List") THEN rules.elems ELSE <<rules>>
             all_list == \A i \in 1..Len(rs) : HasForm(rs[i], "List")
         IN IF all_list
            THEN DispatchResult("list",
                     ListE([i \in 1..Len(rs) |-> EvalCreate(rs[i]).value]), <<>>)
            ELSE FlattenLoop(rs, <<>>)

\* DispatchAtom.eval_normal
EvalNormal(dispatch) ==
    IF IsDispatch(dispatch) THEN DispatchSrc(dispatch) ELSE dispatch.elems[1]

D1 == DispatchInit(<<Ex("Rule", <<Sym("x"), Sym("y")>>)>>)

DispatchElements ==
    {Ex("Rule", <<Sym("a"), Sym("b")>>), Ex("RuleDelayed", <<Sym("c"), Sym("d")>>),
     ListE(<<Ex("Rule", <<Sym("a"), Sym("b")>>), Ex("Rule", <<Sym("c"), Sym("d")>>)>>),
     ListE(<<>>), D1, IntE("5"), Ex("f", <<Sym("x"), Sym("y")>>),
     Ex("Rule", <<Sym("a"), Sym("b"), Sym("c")>>),
     ListE(<<IntE("5")>>), ListE(<<Ex("f", <<Sym("x"), Sym("y")>>)>>)}

DispatchArgs ==
    {ListE(l) : l \in SeqsUpTo(DispatchElements, MaxRuleListLen)} \cup {D1}

\* Dispatch[rules], then Normal of the result
CallDispatch(rules) ==
    /\ cp.pc = "idle"
    /\ LET res == EvalCreate(rules) IN
       cp' = [pc |-> "dispatched", expr |-> rules, res |-> res,
              normal |-> IF res.kind = "dispatch" THEN EvalNormal(res.value)
                         ELSE NoneE]
    /\ UNCHANGED <<cr, rr, rl, mt, rp>>

NextDisp ==
    /\ cp.pc = "idle"
    /\ \E rules \in DispatchArgs : CallDispatch(rules)

SpecDisp == InitRP /\ [][NextDisp]_vars

\* a Rule or RuleDelayed of two elements
IsRule2(e) == e.head \in {"Rule", "RuleDelayed"} /\ Len(e.elems) = 2

\* an arity-2 rule, a list of such rules, or a Dispatch value
DispatchMember(e) ==
    \/ IsRule2(e)
    \/ IsDispatch(e)
    \/ e.head = "List" /\ \A i \in 1..Len(e.elems) : IsRule2(e.elems[i])

RECURSIVE FlatOneLevel(_)
\* the members in order, a list opened, a Dispatch replaced by its source
FlatOneLevel(es) ==
    IF es = <<>> THEN <<>>
    ELSE (IF IsDispatch(Head(es)) THEN DispatchSrc(Head(es)).elems
          ELSE IF Head(es).head = "List" THEN Head(es).elems
          ELSE <<Head(es)>>) \o FlatOneLevel(Tail(es))

\* C26: for every list L of arity-2 rules, lists of such rules and
\* Dispatch values, not all of them lists, Dispatch[L] is a Dispatch whose
\* source list and rules are L flattened by one level, in order, and
\* Normal returns that list; Dispatch of a Dispatch is that Dispatch; any
\* other element makes the construction fail with invrpl and no Dispatch.
C26_DispatchRoundTrip ==
    cp.pc = "dispatched" =>
        LET L == cp.expr IN
        IF IsDispatch(L) THEN cp.res.kind = "dispatch" /\ cp.res.value = L
        ELSE IF \A i \in 1..Len(L.elems) : L.elems[i].head = "List" THEN TRUE
        ELSE IF \A i \in 1..Len(L.elems) : DispatchMember(L.elems[i])
        THEN /\ cp.res.kind = "dispatch"
             /\ IsDispatch(cp.res.value)
             /\ DispatchSrc(cp.res.value) = ListE(FlatOneLevel(L.elems))
             /\ DispatchRules(cp.res.value) = DispatchRulesOf(FlatOneLevel(L.elems))
             /\ cp.normal = ListE(FlatOneLevel(L.elems))
             /\ cp.res.msgs = <<>>
        ELSE /\ cp.res.kind = "none"
             /\ cp.res.msgs = <<Msg("Dispatch", "invrpl")>>

\* C27: ReplaceRepeated with MaxIterations 0 applies no rule and returns
\* the input expression unchanged, and for every cap value a call that is
\* not cancelled returns a defined expression (the local result is bound).
C27_CapZeroReturnsInput ==
    /\ (rr.pc \in {"returned", "raised"} /\ rr.exit = "cap"
           /\ rr.option.numeric /\ rr.option.int = 0) =>
          (rr.pc = "returned" /\ rr.passes = 0 /\ rr.result = rr.expr)
    /\ (rr.pc = "raised" => rr.exc # "UnboundLocalError")
    /\ (rr.pc = "returned" /\ rr.exit \in {"cap", "fixed"} => rr.result # UnboundE)

(***************************************************************************)
(* Nested Except patterns under a caller that collects every match or      *)
(* stops after the first one.                                              *)
(***************************************************************************)
NestedC ==
    {PBlank(SymbolSymbol), PBlank(Sym("Integer")), PVerbatim(Sym("a")), BlankX,
     PAlternatives(<<BlankX, PBlank(NoneE)>>),
     PCondition(BlankX, Ex("SameQ", <<Sym("x"), Sym("a")>>))}

NestedP == {PBlank(SymbolSymbol), PPattern("y", PBlank(NoneE))}

NestedExceptPatterns ==
    {PExcept1(PExcept1(c)) : c \in NestedC}
        \cup {PExcept1(PExcept1(PExcept1(c))) : c \in NestedC}
        \cup {PExcept2(PExcept1(c), p) : c \in NestedC, p \in NestedP}
        \cup {PExcept2(c, PExcept1(d)) : c \in NestedC, d \in NestedC}
        \cup {PExcept1(PExcept2(c, p)) : c \in NestedC, p \in NestedP}
        \cup {PAlternatives(<<PExcept1(c), PBlank(NoneE)>>) : c \in NestedC}

Callers == {KCollect, KFirst}

\* pattern.match(expression, {"vars_dict": vars0, "yield_func": caller})
RunMatchWith(self, expression, vars0, caller) ==
    Match(self, expression, Context(1, <<caller>>), MachineInit(vars0))

CallMatchWith(self, expression, vars0, caller) ==
    /\ mt.pc = "idle"
    /\ mt' = [pc |-> "unwound", self |-> self, expression |-> expression,
              vars0 |-> vars0, caller |-> caller,
              st |-> RunMatchWith(self, expression, vars0, caller)]
    /\ UNCHANGED <<cr, rr, rl, rp, cp>>

NextExc ==
    /\ mt.pc = "idle"
    /\ \E self \in NestedExceptPatterns, expression \in Candidates,
          vars0 \in InitialVars, caller \in Callers :
           CallMatchWith(self, expression, vars0, caller)

SpecExc == InitMatch /\ [][NextExc]_vars

\* Except[Except[c]]
IsDoubleExcept(self) ==
    /\ IsExcept1(self)
    /\ self.subs[1].tag = "Except"
    /\ IsExcept1(self.subs[1])
    /\ self.subs[1].subs[1].tag # "Except"

\* the calls a caller that stops after the first match receives
FirstOnly(out) == IF out = <<>> THEN <<>> ELSE <<out[1]>>

\* C28: the abort signal of an Except unwinds exactly to the Except that
\* raised it, also under nesting: no such signal reaches the caller, a
\* stop-after-first-match signal raised by the caller's continuation
\* passes through every Except uncaught (the caller then has exactly the
\* first of the matches a collecting caller gets), and Except[Except[c]]
\* succeeds on a single non-sequence candidate iff c matches it.
C28_ExceptSignalUnwinds ==
    mt.pc = "unwound" =>
        LET all == RunMatch(mt.self, mt.expression, mt.vars0) IN
        /\ mt.st.exc # "_StopGeneratorExcept"
        /\ (mt.st.exc = "StopGenerator") <=> (mt.caller = KFirst /\ Succeeded(all))
        /\ mt.caller = KFirst => YieldedVars(mt.st) = FirstOnly(YieldedVars(all))
        /\ (IsDoubleExcept(mt.self) /\ mt.expression.head # "Sequence") =>
               (Succeeded(mt.st) <=>
                   Succeeded(RunMatch(mt.self.subs[1].subs[1], mt.expression,
                                      mt.vars0)))

\* the fallback of the inner Except reaches the continuation of the outer
\* one, whose signal ends the outer match without a success
C28_Witness ==
    /\ mt.pc = "unwound"
    /\ mt.self = PExcept1(PExcept1(PVerbatim(Sym("a"))))
    /\ mt.expression = Sym("b")
    /\ mt.caller = KCollect
    /\ mt.vars0 = EmptyVars
    /\ ~Succeeded(mt.st)
    /\ mt.st.exc = "none"

(***************************************************************************)
(* PatternTest around an Optional slot of an expression pattern.           *)
(***************************************************************************)
PTOTests == {"AtomQ", "p", "IntegerQ"}

PTOSlots ==
    {PPatternTest(POptional(p, d), Sym(t)) :
         p \in OptInner, d \in OptDefaults, t \in PTOTests}

PTOPatterns ==
    {PExpression(Sym(h), <<o>>) : h \in OptHeads, o \in PTOSlots}
        \cup {PExpression(Sym(h), <<PPattern("y", PBlank(NoneE)), o>>) :
                  h \in OptHeads, o \in PTOSlots}

NextPTO ==
    /\ mt.pc = "idle"
    /\ \E self \in PTOPatterns, expression \in OptCandidates, vars0 \in InitialVars :
           CallMatch(self, expression, vars0)

SpecPTO == InitMatch /\ [][NextPTO]_vars

\* the pattern is head[..., PatternTest[Optional[p], test]] and the
\* candidate leaves the last slot empty
EmptyTestedSlot ==
    /\ mt.pc = "done"
    /\ mt.self.tag = "Expression"
    /\ mt.self.subs # <<>>
    /\ mt.self.subs[Len(mt.self.subs)].tag = "PatternTest"
    /\ mt.self.subs[Len(mt.self.subs)].subs[1].tag = "Optional"
    /\ mt.expression.head = mt.self.head.name
    /\ Len(mt.expression.elems) = Len(mt.self.subs) - 1

\* C29: PatternTest hands its inner pattern the context it received (the
\* enclosing head, the element index and the element count), under the
\* fast-path predicates and under the general test procedure alike: on an
\* empty last slot, where the test has no item to reject, the match of
\* head[..., PatternTest[Optional[p], test]] has the outcome of
\* head[..., Optional[p]], the same declared default being resolved.
C29_SameContextBothProcedures ==
    EmptyTestedSlot =>
        LET n == Len(mt.self.subs)
            bare == PExpression(mt.self.head,
                        SubSeq(mt.self.subs, 1, n - 1) \o <<mt.self.subs[n].subs[1]>>)
            plain == RunMatch(bare, mt.expression, mt.vars0)
        IN /\ YieldedVars(mt.st) = YieldedVars(plain)
           /\ mt.st.msgs = plain.msgs
           /\ mt.st.exc = plain.exc

(***************************************************************************)
(* The logical expansion of assumptions (mathics/eval/inference.py).       *)
(***************************************************************************)
MaxAssumptions == 2

HeadOrder == <<"Symbol", "Integer", "And", "Implies", "Nor", "Not", "Or">>

NameOrder == <<"", "5", "False", "Pi", "True", "a", "b", "c">>

RankIn(order, x) == CHOOSE i \in 1..Len(order) : order[i] = x

RECURSIVE ExprLess(_, _)
RECURSIVE ElemsLess(_, _)
\* the order of expressions that sorted() uses
ExprLess(x, y) ==
    IF x.head # y.head THEN RankIn(HeadOrder, x.head) < RankIn(HeadOrder, y.head)
    ELSE IF x.name # y.name THEN RankIn(NameOrder, x.name) < RankIn(NameOrder, y.name)
    ELSE IF Len(x.elems) # Len(y.elems) THEN Len(x.elems) < Len(y.elems)
    ELSE ElemsLess(x.elems, y.elems)

ElemsLess(xs, ys) ==
    IF xs = <<>> THEN FALSE
    ELSE IF Head(xs) = Head(ys) THEN ElemsLess(Tail(xs), Tail(ys))
    ELSE ExprLess(Head(xs), Head(ys))

\* sorted(assumptions_list): every member at its place in the order, equal
\* members in their order of arrival
Sorted(l) ==
    LET n == Len(l)
        place(j) == 1 + Cardinality({k \in 1..n : ExprLess(l[k], l[j])
                                                 \/ (l[k] = l[j] /\ k < j)})
    IN [i \in 1..n |-> l[CHOOSE j \in 1..n : place(j) = i]]

RECURSIVE UniqueLoop(_, _)
\* for i, assumption in enumerate(assumptions_list): append when it differs
\* from the last unique one, which in a sorted list is its predecessor
UniqueLoop(l, i) ==
    IF i > Len(l) THEN <<>>
    ELSE (IF i > 1 /\ l[i] # l[i - 1] THEN <<l[i]>> ELSE <<>>) \o UniqueLoop(l, i + 1)

\* remove_duplicated_assumptions
RemoveDuplicatedAssumptions(assumptions_list) ==
    IF Len(assumptions_list) = 0 THEN assumptions_list
    ELSE CHOOSE unique_assumptions \in
             {<<l[1]>> \o UniqueLoop(l, 1) : l \in {Sorted(assumptions_list)}} : TRUE

\* assumption.is_numeric(evaluation), for a symbol
IsNumericSymbol(x) == x.name \in {"Pi"}

\* [Expression(SymbolNot, element) for element in elements]
NotEach(elements) == [i \in 1..Len(elements) |-> Ex("Not", <<elements[i]>>)]

Expanded(new, changed, msgs) == [new |-> new, changed |-> changed, msgs |-> msgs]

\* the statements of the Not branch: done when they end in continue
ExpandNot(assumption) ==
    LET sentence == assumption.elems[1] IN
    IF sentence.head = "Or"
    THEN [done |-> TRUE, new |-> NotEach(sentence.elems), changed |-> TRUE]
    ELSE IF sentence.head = "And"
    THEN [done |-> TRUE, new |-> <<Ex("Or", NotEach(sentence.elems))>>,
          changed |-> FALSE]
    ELSE IF sentence.head = "Implies" /\ Len(sentence.elems) = 2
    THEN [done |-> FALSE,
          new |-> <<sentence.elems[1], Ex("Not", <<sentence.elems[2]>>)>>,
          changed |-> TRUE]
    ELSE [done |-> FALSE, new |-> <<>>, changed |-> FALSE]

\* the body of the loop of logical_expand_assumptions for one assumption
ExpandOne(assumption) ==
    IF assumption.head = "Symbol"
    THEN IF assumption = Sym("True") THEN Expanded(<<>>, TRUE, <<>>)
         ELSE IF assumption = Sym("False")
         THEN Expanded(<<>>, TRUE, <<Msg("$Assumptions", "faas")>>)
         ELSE IF IsNumericSymbol(assumption)
         THEN Expanded(<<>>, TRUE, <<Msg("$Assumptions", "baas")>>)
         ELSE Expanded(<<assumption>>, FALSE, <<>>)
    ELSE IF assumption.head = "And" THEN Expanded(assumption.elems, TRUE, <<>>)
    ELSE LET n == IF assumption.head = "Not" /\ Len(assumption.elems) = 1
                  THEN ExpandNot(assumption)
                  ELSE [done |-> FALSE, new |-> <<>>, changed |-> FALSE]
         IN IF n.done THEN Expanded(n.new, n.changed, <<>>)
            ELSE IF assumption.head = "Nor"
            THEN Expanded(n.new \o NotEach(assumption.elems), TRUE, <<>>)
            ELSE Expanded(n.new \o <<assumption>>, n.changed, <<>>)

RECURSIVE ConcatFrom(_, _)
\* the lists seqs[i], seqs[i + 1], ... appended in order
ConcatFrom(seqs, i) ==
    IF i > Len(seqs) THEN <<>> ELSE seqs[i] \o ConcatFrom(seqs, i + 1)

\* for assumption in assumptions_list
ExpandLoop(assumptions_list) ==
    LET n == Len(assumptions_list) IN
    Expanded(ConcatFrom([i \in 1..n |-> ExpandOne(assumptions_list[i]).new], 1),
             \E i \in 1..n : ExpandOne(assumptions_list[i]).changed,
             ConcatFrom([i \in 1..n |-> ExpandOne(assumptions_list[i]).msgs], 1))

\* logical_expand_assumptions
LogicalExpandAssumptions(assumptions_list) ==
    CHOOSE result \in
        {IF r.changed THEN [r EXCEPT !.new = RemoveDuplicatedAssumptions(r.new)]
         ELSE r : r \in {ExpandLoop(assumptions_list)}} : TRUE

Assumptions ==
    LET a == Sym("a")
        b == Sym("b")
    IN {a, b, Sym("True"), Sym("False"), Sym("Pi"), IntE("5"),
        Ex("And", <<a, b>>), Ex("And", <<Ex("And", <<a, b>>), Sym("c")>>),
        Ex("Or", <<a, b>>), Ex("Not", <<a>>), Ex("Not", <<Ex("Or", <<a, b>>)>>),
        Ex("Not", <<Ex("And", <<a, b>>)>>), Ex("Nor", <<a, b>>),
        Ex("Implies", <<a, b>>), Ex("Not", <<Ex("Implies", <<a, b>>)>>),
        Ex("And", <<a, Ex("Nor", <<a, Ex("Or", <<b, Sym("c")>>)>>)>>),
        Ex("Nor", <<Ex("And", <<a, b>>)>>)}

AssumptionLists == SeqsUpTo(Assumptions, MaxAssumptions)

\* get_assumption_rules_dispatch, on entry to "Expands Logically"
InitLE ==
    /\ cr = CRIdle /\ rr = RRIdle /\ rl = RLIdle /\ mt = MTIdle /\ rp = RPIdle
    /\ \E l \in AssumptionLists :
           cp = [pc |-> "expand", given |-> l, assumptions_list |-> l,
                 cont |-> FALSE, msgs |-> <<>>]

\* assumptions_list, cont = logical_expand_assumptions(assumptions_list, evaluation)
LogicalExpandCall ==
    /\ cp.pc = "expand"
    /\ \E r \in {LogicalExpandAssumptions(cp.assumptions_list)} :
           cp' = [cp EXCEPT !.pc = "while", !.assumptions_list = r.new,
                            !.cont = r.changed, !.msgs = cp.msgs \o r.msgs]
    /\ UNCHANGED <<cr, rr, rl, mt, rp>>

\* while cont
WhileCont ==
    /\ cp.pc = "while"
    /\ cp' = [cp EXCEPT !.pc = IF cp.cont THEN "expand" ELSE "expanded"]
    /\ UNCHANGED <<cr, rr, rl, mt, rp>>

NextLE == LogicalExpandCall \/ WhileCont

SpecLE == InitLE /\ [][NextLE]_vars /\ WF_vars(NextLE)

\* C30: for every finite list of assumptions, repeating
\* logical_expand_assumptions while it reports a change eventually yields
\* changed = False, and the loop terminates.
C30_ExpansionTerminates == <>(cp.pc = "expanded")

====
